---- MODULE Spec2Model ----
(***************************************************************************)
(* Verification model of the multi-platform publish / fetch orchestration  *)
(* layer of SocialManager_demo:                                            *)
(*   - SocialMediaApiFactory and SocialMediaCoordinator (src/api/index.ts) *)
(*   - the adapters' createPost (Instagram, YouTube, TikTok, Facebook)     *)
(*   - the Instagram response cache (getMedia / getComments)               *)
(*   - the posts store and the publish-now submit handler                  *)
(*   - the comment fetch cycle of the Comments page                        *)
(***************************************************************************)
EXTENDS Integers, Sequences, FiniteSets, TLC

\* ------------------------------------------------------------------------
\* Shared vocabulary
\* ------------------------------------------------------------------------

\* type Platform (types/index.ts)
Platform == {"instagram", "youtube", "tiktok", "facebook"}

\* JavaScript null
NULL == "null"

\* identifiers a platform hands out in its responses
NativeIds == {"n1", "n2"}

\* identifiers the adapters make up themselves
IgSimulatedId == "ig_post_sim"
TikTokSimulatedId == "TIKTOK_SIMULATED_sim"
YouTubeSimulatedId == "SIMULATED_sim"
FacebookFallbackId == "FB_POST_ts"

\* longest post.platforms list that is enumerated
MaxPlatforms == 2

Range(s) == {s[k] : k \in 1..Len(s)}

\* all lists of pairwise different platforms of length 0..MaxPlatforms
PlatformLists ==
    UNION {{s \in [1..n -> Platform] : \A a, b \in 1..n : a # b => s[a] # s[b]}
           : n \in 0..MaxPlatforms}

VARIABLES
    platformsEnabled,   \* useSettingsStore.platformsEnabled
    apiCredentials,     \* useSettingsStore.apiCredentials: 0 = absent, k = k-th credential set
    apiSlot,            \* SocialMediaApiFactory's cached adapter per platform: 0 = null
    pub,                \* one publishToMultiplePlatforms call
    postsStore,         \* usePostsStore: posts, drafts, scheduled, published, failed
    nextUuid,           \* the next identifier uuidv4() hands out
    sub,                \* the submit handler of the create-post form
    imp,                \* importRealInstagramPosts of the Comments page
    now,                \* Date.now(), in milliseconds
    instagramApi,       \* the Instagram adapter's caches and their fetch times
    igReads,            \* getMedia / getComments calls awaiting their request
    lastRead,           \* the latest getMedia / getComments call that settled
    comments,           \* useCommentsStore.comments
    platformStats,      \* useSettingsStore.platformStats
    igAccount,          \* the Instagram account: its media and their comments
    page,               \* the mounted Comments page: its instance and useState flags
    cycles,             \* fetchAllComments calls that await a response
    fetchLog,           \* what the fetchAllComments calls did so far
    factoryLog,         \* the latest getApiService call and its outcome
    statsRun,           \* the getPlatformStats call in progress
    replyCall,          \* the latest replyToComment call and its request
    errorCase,          \* the latest failed request and the error raised for it
    accountStats,       \* the latest getAccountStats call and its result
    youtubeApi          \* the YouTube adapter: its tokens and its request in progress

settingsVars == <<platformsEnabled, apiCredentials>>
postsVars == <<postsStore, nextUuid, sub, imp>>
publishVars == <<settingsVars, apiSlot, pub, postsVars>>
cacheVars == <<now, instagramApi, igReads, lastRead>>
fetchVars == <<comments, platformStats, igAccount, page, cycles, fetchLog>>
adapterVars == <<factoryLog, statsRun, replyCall, errorCase, accountStats, youtubeApi>>

vars == <<platformsEnabled, apiCredentials, apiSlot, pub, postsStore, nextUuid, sub, imp,
          now, instagramApi, igReads, lastRead,
          comments, platformStats, igAccount, page, cycles, fetchLog,
          factoryLog, statsRun, replyCall, errorCase, accountStats, youtubeApi>>

\* ------------------------------------------------------------------------
\* SocialMediaApiFactory.getApiService
\* ------------------------------------------------------------------------

\* the adapter constructors throw when the platform's credentials are absent
ConstructorThrows(creds, platform) == creds[platform] = 0

\* TRUE when getApiService(platform) throws
GetApiServiceThrows(enabled, creds, slot, platform) ==
    \/ ~enabled[platform]
    \/ slot[platform] = 0 /\ ConstructorThrows(creds, platform)

\* (mutant) the slot is assigned even when the constructor throws
SlotAssignedBeforeCheck(enabled, creds, slot, platform) ==
    IF ~enabled[platform] \/ slot[platform] # 0
    THEN slot
    ELSE [slot EXCEPT ![platform] = IF creds[platform] = 0 THEN 1 ELSE creds[platform]]

\* the factory's slots after getApiService(platform)
GetApiServiceSlot(enabled, creds, slot, platform) ==
    IF GetApiServiceThrows(enabled, creds, slot, platform) \/ slot[platform] # 0
    THEN slot
    ELSE [slot EXCEPT ![platform] = creds[platform]]

\* ------------------------------------------------------------------------
\* The adapters' createPost
\* ------------------------------------------------------------------------

NoMedia == "none"
MediaUrls == {NoMedia, "data", "public"}       \* absent, data: URL, public URL
MediaTypes == {NoMedia, "image", "video"}

\* the posts handed to the coordinator
PostInputs ==
    {post \in [platforms : PlatformLists, mediaUrl : MediaUrls,
               mediaType : MediaTypes, mediaFile : BOOLEAN] :
        post.mediaFile => post.mediaUrl # NoMedia}

\* what the platform answers to the requests of one createPost call:
\* ok = every request needed succeeded, id = the identifier (for YouTube the
\* location header) the response carries, NULL when the response has none
PlatformReplies(platform) ==
    {[ok |-> FALSE, id |-> NULL]}
    \cup {[ok |-> TRUE, id |-> x] : x \in NativeIds}
    \cup (IF platform \in {"youtube", "facebook"}
          THEN {[ok |-> TRUE, id |-> NULL]} ELSE {})

Returned(id, native) == [kind |-> "returned", id |-> id, native |-> native]
Threw == [kind |-> "threw", id |-> NULL, native |-> FALSE]

\* InstagramApiService.createPost(caption, mediaUrl, mediaType)
InstagramCreatePost(post, reply) ==
    IF post.mediaUrl = "data" THEN Returned(IgSimulatedId, FALSE)
    ELSE IF reply.ok THEN Returned(reply.id, TRUE)
    ELSE Threw

\* YouTubeApiService.createPost(title, description, mediaUrl)
YouTubeCreatePost(post, reply) ==
    IF reply.ok /\ reply.id # NULL THEN Returned(YouTubeSimulatedId, FALSE)
    ELSE Threw

\* TikTokApiService.createPost(description, mediaUrl)
TikTokCreatePost(post, reply) ==
    IF reply.ok THEN Returned(reply.id, TRUE)
    ELSE Returned(TikTokSimulatedId, FALSE)

\* FacebookApiService.createPostWithFile / createPost, as the coordinator picks
FacebookCreatePost(post, reply) ==
    IF ~(post.mediaFile /\ post.mediaType = "image")
       /\ post.mediaUrl # NoMedia /\ post.mediaType = NoMedia
    THEN Returned(FacebookFallbackId, FALSE)
    ELSE IF ~reply.ok THEN Threw
    ELSE IF reply.id = NULL THEN Returned(FacebookFallbackId, FALSE)
    ELSE Returned(reply.id, TRUE)

AdapterCreatePost(platform, post, reply) ==
    CASE platform = "instagram" -> InstagramCreatePost(post, reply)
      [] platform = "youtube" -> YouTubeCreatePost(post, reply)
      [] platform = "tiktok" -> TikTokCreatePost(post, reply)
      [] platform = "facebook" -> FacebookCreatePost(post, reply)

\* ------------------------------------------------------------------------
\* SocialMediaCoordinator.publishToMultiplePlatforms
\* ------------------------------------------------------------------------

\* the media test the coordinator makes before it asks for the adapter
\* (mutant) a media test that lets any media through for every platform
AnyMediaSuffices(platform, post) ==
    CASE platform = "facebook" -> TRUE
      [] OTHER -> post.mediaUrl # NoMedia

HasRequiredMedia(platform, post) ==
    CASE platform = "instagram" -> post.mediaUrl # NoMedia /\ post.mediaType # NoMedia
      [] platform \in {"youtube", "tiktok"} ->
            post.mediaUrl # NoMedia /\ post.mediaType = "video"
      [] platform = "facebook" -> TRUE

\* (mutant) a result map that only has the keys of post.platforms
ResultsOfSelectedOnly(post) == [p \in Range(post.platforms) |-> NULL]

\* const results = { instagram: null, youtube: null, tiktok: null, facebook: null }
InitialResults(post) == [p \in Platform |-> NULL]

\* (mutant) the error of one platform ends the loop, as if only the outer
\* try/catch were there
AbortAfterCatch(i, n) == n + 1

\* the loop index after the inner catch block has handled a platform's error
IndexAfterCatch(i, n) == i + 1

\* TRUE when an error raised while platform is processed leaves the function:
\* every platform case sits inside the loop's try/catch (and Facebook's own)
ErrorEscapes(platform) == FALSE

NoAttempt == [kind |-> "none", id |-> NULL, native |-> FALSE]
Skipped == [kind |-> "skipped", id |-> NULL, native |-> FALSE]
NoPost == [platforms |-> <<>>, mediaUrl |-> NoMedia, mediaType |-> NoMedia,
           mediaFile |-> FALSE]

PubIdle ==
    [pc |-> "idle", post |-> NoPost, i |-> 0, results |-> [p \in Platform |-> NULL],
     attempts |-> [p \in Platform |-> NoAttempt], escaped |-> FALSE,
     outstanding |-> {}]

\* the call state once platform number i has been dealt with and the loop is
\* at index j: past the end of post.platforms the function returns
PubAdvance(call, platform, value, attempt, j) ==
    [call EXCEPT !.results[platform] = value,
                 !.attempts[platform] = attempt,
                 !.outstanding = @ \ {platform},
                 !.i = j,
                 !.pc = IF j > Len(call.post.platforms) THEN "returned" ELSE "loop"]

\* the call state once an error was raised while platform number i is processed
PubCatch(call, platform, attempt) ==
    IF ErrorEscapes(platform)
    THEN [call EXCEPT !.attempts[platform] = attempt, !.pc = "threw", !.escaped = TRUE,
                      !.outstanding = @ \ {platform}]
    ELSE PubAdvance(call, platform, NULL, attempt,
                    IndexAfterCatch(call.i, Len(call.post.platforms)))

\* (mutant) createPost is called and the loop goes on without awaiting it
CallWithoutAwait(call, platform) ==
    [call EXCEPT !.outstanding = @ \cup {platform},
                 !.i = IF @ < Len(call.post.platforms) THEN @ + 1 ELSE @,
                 !.pc = IF call.i < Len(call.post.platforms) THEN "loop" ELSE "await"]

\* results[platform] = await api.createPost(...): the call is outstanding and
\* the function is suspended until it settles
CallAndAwait(call, platform) ==
    [call EXCEPT !.outstanding = @ \cup {platform}, !.pc = "await"]

\* the call state when publishToMultiplePlatforms(post) is entered
PubStart(post) ==
    [PubIdle EXCEPT !.post = post, !.i = 1,
                    !.results = InitialResults(post),
                    !.pc = IF Len(post.platforms) = 0 THEN "returned" ELSE "loop"]

\* publishToMultiplePlatforms(post) is called directly
PublishCall(post) ==
    /\ pub.pc = "idle"
    /\ pub' = PubStart(post)
    /\ UNCHANGED <<settingsVars, apiSlot, postsVars, cacheVars, fetchVars, adapterVars>>

\* one pass of the for loop up to the adapter call: the media test, then
\* apiFactory.getApiService, then createPost is awaited
PublishBegin ==
    /\ pub.pc = "loop"
    /\ LET platform == pub.post.platforms[pub.i]
       IN IF ~HasRequiredMedia(platform, pub.post)
          THEN /\ pub' = PubAdvance(pub, platform, NULL, Skipped, pub.i + 1)
               /\ UNCHANGED apiSlot
          ELSE IF GetApiServiceThrows(platformsEnabled, apiCredentials, apiSlot, platform)
          THEN /\ pub' = PubCatch(pub, platform, Threw)
               /\ UNCHANGED apiSlot
          ELSE /\ pub' = CallAndAwait(pub, platform)
               /\ apiSlot' = GetApiServiceSlot(platformsEnabled, apiCredentials,
                                               apiSlot, platform)
    /\ UNCHANGED <<settingsVars, postsVars, cacheVars, fetchVars, adapterVars>>

\* the awaited createPost settles: its id is stored, or its error is caught
PublishResolve ==
    /\ pub.pc = "await"
    /\ LET platform == pub.post.platforms[pub.i]
       IN \E reply \in PlatformReplies(platform) :
            LET out == AdapterCreatePost(platform, pub.post, reply)
            IN pub' = IF out.kind = "returned"
                      THEN PubAdvance(pub, platform, out.id, out, pub.i + 1)
                      ELSE PubCatch(pub, platform, out)
    /\ UNCHANGED <<settingsVars, apiSlot, postsVars, cacheVars, fetchVars, adapterVars>>

\* ------------------------------------------------------------------------
\* usePostsStore
\* ------------------------------------------------------------------------

\* total number of posts the store ever creates
MaxPosts == 2

\* post.platformPostIds before any publication: undefined
NoIds == [p \in {} |-> NULL]

EmptyString == ""

\* the initial state of the store
EmptyStore ==
    [posts |-> <<>>, drafts |-> <<>>, scheduled |-> <<>>, published |-> <<>>,
     failed |-> <<>>]

\* the post object createPost builds; createdAt is the creation order
NewPost(id, platforms) ==
    [id |-> id, platforms |-> platforms, status |-> "draft", scheduledFor |-> NULL,
     platformPostIds |-> NoIds, createdAt |-> id]

\* posts.filter(post => post.status === status)
WithStatus(posts, status) == SelectSeq(posts, LAMBDA q : q.status = status)

\* { ...post, ...data }
Merge(post, data) ==
    [f \in DOMAIN post |-> IF f \in DOMAIN data THEN data[f] ELSE post[f]]

\* (mutant) the new post is appended to posts only
CreatePostUnlisted(store, id, platforms) ==
    [store EXCEPT !.posts = Append(@, NewPost(id, platforms))]

\* createPost(content, mediaUrl, mediaType, platforms)
CreatePost(store, id, platforms) ==
    [store EXCEPT !.posts = Append(@, NewPost(id, platforms)),
                  !.drafts = Append(@, NewPost(id, platforms))]

\* updatePost(id, data)
UpdatePost(store, id, data) ==
    LET updatedPosts ==
            [k \in 1..Len(store.posts) |->
                IF store.posts[k].id = id THEN Merge(store.posts[k], data)
                ELSE store.posts[k]]
    IN [posts |-> updatedPosts,
        drafts |-> WithStatus(updatedPosts, "draft"),
        scheduled |-> WithStatus(updatedPosts, "scheduled"),
        published |-> WithStatus(updatedPosts, "published"),
        failed |-> WithStatus(updatedPosts, "failed")]

\* deletePost(id)
DeletePost(store, id) ==
    LET filteredPosts == SelectSeq(store.posts, LAMBDA q : q.id # id)
    IN [posts |-> filteredPosts,
        drafts |-> WithStatus(filteredPosts, "draft"),
        scheduled |-> WithStatus(filteredPosts, "scheduled"),
        published |-> WithStatus(filteredPosts, "published"),
        failed |-> WithStatus(filteredPosts, "failed")]

\* schedulePost(id, scheduleDate)
SchedulePost(store, id) ==
    UpdatePost(store, id, [scheduledFor |-> "date", status |-> "scheduled"])

\* publishPost(id, platformPostIds)
PublishPost(store, id, platformPostIds) ==
    UpdatePost(store, id, [status |-> "published", platformPostIds |-> platformPostIds])

\* markAsFailed(id, error)
MarkAsFailed(store, id) == UpdatePost(store, id, [status |-> "failed"])

\* ------------------------------------------------------------------------
\* CreatePostForm.handleSubmit
\* ------------------------------------------------------------------------

\* what the form holds when it is submitted: an upload yields a data: URL and
\* keeps the file, a typed public URL has no file
FormInputs ==
    {f \in [platforms : PlatformLists, mediaUrl : MediaUrls, mediaType : MediaTypes,
            mediaFile : BOOLEAN, isScheduled : BOOLEAN] :
        /\ f.mediaFile = (f.mediaUrl = "data")
        /\ f.mediaUrl = NoMedia => f.mediaType = NoMedia}

\* verifyPlatforms(): some selected platform is enabled and has credentials
VerifyPlatforms(f) ==
    \E p \in Range(f.platforms) : platformsEnabled[p] /\ apiCredentials[p] # 0

\* the validation checks ahead of setIsSubmitting(true)
PassesValidation(f) ==
    /\ Len(f.platforms) # 0
    /\ ~("instagram" \in Range(f.platforms) /\ f.mediaUrl = NoMedia)
    /\ VerifyPlatforms(f)

\* (mutant) success judged on the first platform's result only
FirstSuccess(results, platforms) ==
    Len(platforms) > 0 /\ results[platforms[1]] # NULL

\* anySuccess: some entry of the coordinator's result is not null
AnySuccess(results, platforms) == \E p \in DOMAIN results : results[p] # NULL

SubIdle == [pc |-> "idle", postId |-> 0, platforms |-> <<>>,
            results |-> [p \in Platform |-> NULL]]

\* handleSubmit up to the awaited coordinator call (or to its return, when the
\* post is scheduled)
SubmitPost(f) ==
    /\ sub.pc = "idle"
    /\ pub.pc = "idle"
    /\ nextUuid <= MaxPosts
    /\ PassesValidation(f)
    /\ LET created == CreatePost(postsStore, nextUuid, f.platforms)
       IN IF f.isScheduled
          THEN /\ postsStore' = SchedulePost(created, nextUuid)
               /\ sub' = [SubIdle EXCEPT !.pc = "scheduled", !.postId = nextUuid,
                                        !.platforms = f.platforms]
               /\ pub' = pub
          ELSE /\ postsStore' = created
               /\ sub' = [SubIdle EXCEPT !.pc = "publishing", !.postId = nextUuid,
                                        !.platforms = f.platforms]
               /\ pub' = PubStart([platforms |-> f.platforms, mediaUrl |-> f.mediaUrl,
                                   mediaType |-> f.mediaType, mediaFile |-> f.mediaFile])
    /\ nextUuid' = nextUuid + 1
    /\ UNCHANGED <<settingsVars, apiSlot, imp, cacheVars, fetchVars, adapterVars>>

\* handleSubmit after the coordinator call has settled
SubmitFinish ==
    /\ sub.pc = "publishing"
    /\ pub.pc \in {"returned", "threw"}
    /\ postsStore' =
          IF pub.pc = "returned" /\ AnySuccess(pub.results, sub.platforms)
          THEN PublishPost(postsStore, sub.postId, pub.results)
          ELSE MarkAsFailed(postsStore, sub.postId)
    /\ sub' = [sub EXCEPT !.pc = "done", !.results = pub.results]
    /\ pub' = PubIdle
    /\ UNCHANGED <<settingsVars, apiSlot, nextUuid, imp, cacheVars, fetchVars, adapterVars>>

\* the Scheduler page's delete button of a scheduled post
DeleteScheduled ==
    /\ \E k \in 1..Len(postsStore.scheduled) :
          postsStore' = DeletePost(postsStore, postsStore.scheduled[k].id)
    /\ UNCHANGED <<settingsVars, apiSlot, pub, nextUuid, sub, imp, cacheVars, fetchVars, adapterVars>>

\* ------------------------------------------------------------------------
\* Comments page: importRealInstagramPosts
\* ------------------------------------------------------------------------

\* the media lists getMedia(5) can resolve to: distinct native media ids
MediaLists ==
    UNION {{m \in [1..n -> NativeIds] : \A a, b \in 1..n : a # b => m[a] # m[b]}
           : n \in 0..Cardinality(NativeIds)}

ImpIdle == [pc |-> "idle", posts |-> <<>>]

\* post.platformPostIds?.instagram is truthy
HasInstagramId(post) ==
    /\ "instagram" \in DOMAIN post.platformPostIds
    /\ post.platformPostIds["instagram"] \notin {NULL, EmptyString}

\* for (const post of [...posts]) postsStore.deletePost(post.id)
RECURSIVE DeleteAll(_, _)
DeleteAll(store, snapshot) ==
    IF snapshot = <<>> THEN store
    ELSE DeleteAll(DeletePost(store, Head(snapshot).id), Tail(snapshot))

\* for (const media of mediaItems): createPost, then publishPost with the
\* media id for instagram and '' for youtube and tiktok
RECURSIVE ImportAll(_, _, _)
ImportAll(store, mediaItems, id) ==
    IF mediaItems = <<>> THEN store
    ELSE ImportAll(
            PublishPost(CreatePost(store, id, <<"instagram">>), id,
                        [p \in {"instagram", "youtube", "tiktok"} |->
                            IF p = "instagram" THEN Head(mediaItems) ELSE EmptyString]),
            Tail(mediaItems), id + 1)

\* the Comments page mounts: its effect enables Instagram and stores the demo
\* token when the platform is off, then importRealInstagramPosts runs up to
\* the awaited getMedia(5), holding the posts of the render that created it
ImportCall ==
    /\ imp.pc = "idle"
    /\ LET enabled == [platformsEnabled EXCEPT !["instagram"] = TRUE]
           creds == IF platformsEnabled["instagram"] THEN apiCredentials
                    ELSE [apiCredentials EXCEPT !["instagram"] = 1]
       IN /\ platformsEnabled' = enabled
          /\ apiCredentials' = creds
          /\ IF GetApiServiceThrows(enabled, creds, apiSlot, "instagram")
             THEN UNCHANGED <<imp, apiSlot>>
             ELSE /\ imp' = [pc |-> "await", posts |-> postsStore.posts]
                  /\ apiSlot' = GetApiServiceSlot(enabled, creds, apiSlot, "instagram")
    /\ UNCHANGED <<pub, postsStore, nextUuid, sub, cacheVars, fetchVars, adapterVars>>

\* getMedia(5) rejects: the catch block logs the error
ImportFails ==
    /\ imp.pc = "await"
    /\ imp' = ImpIdle
    /\ UNCHANGED <<settingsVars, apiSlot, pub, postsStore, nextUuid, sub, cacheVars, fetchVars, adapterVars>>

\* getMedia(5) resolves to mediaItems
ImportResolve(mediaItems) ==
    /\ imp.pc = "await"
    /\ nextUuid + Len(mediaItems) <= MaxPosts + 1
    /\ LET existingInstagramIds ==
               {imp.posts[k].platformPostIds["instagram"] :
                    k \in {j \in 1..Len(imp.posts) : HasInstagramId(imp.posts[j])}}
           newPosts == SelectSeq(mediaItems, LAMBDA m : m \notin existingInstagramIds)
       IN IF Len(mediaItems) = 0 \/ Len(newPosts) = 0
          THEN UNCHANGED <<postsStore, nextUuid>>
          ELSE /\ postsStore' = ImportAll(DeleteAll(postsStore, imp.posts),
                                          mediaItems, nextUuid)
               /\ nextUuid' = nextUuid + Len(mediaItems)
    /\ imp' = ImpIdle
    /\ UNCHANGED <<settingsVars, apiSlot, pub, sub, cacheVars, fetchVars, adapterVars>>

\* ------------------------------------------------------------------------
\* InstagramApiService: the cached reads getMedia and getComments
\* ------------------------------------------------------------------------

\* private readonly CACHE_TTL = 60000
CACHE_TTL == 60000

\* the clock advances in steps of a third of the TTL, MaxTicks times at most
MaxTicks == 4
TickMs == CACHE_TTL \div 3

\* Date.now() when the adapter is constructed: far from the epoch
StartTime == 10 * CACHE_TTL

\* reads that may await their request at the same time
MaxInFlight == 2

\* what the platform answers to a read
ReadValues == {"v1", "v2"}

\* the post ids getComments is called with: a native and a simulated one
CommentPostIds == {"n1", IgSimulatedId}

\* mediaCache = null, lastMediaFetch = 0, commentsCache and lastCommentsRefresh
\* empty: a missing fetch time reads as 0
\* the maps are indexed by the post ids the adapter is asked about
NewInstagramApi(mediaIds) ==
    [mediaCache |-> NULL, lastMediaFetch |-> 0,
     commentsCache |-> [m \in mediaIds |-> NULL],
     lastCommentsRefresh |-> [m \in mediaIds |-> 0]]

NoRead == [op |-> "none", mediaId |-> NULL, event |-> "none", value |-> NULL]

\* the record of a call that has just settled
Settled(op, mediaId, event, value) ==
    [op |-> op, mediaId |-> mediaId, event |-> event, value |-> value]

\* { data: [] }
EmptyComments == "[]"

\* mediaId.startsWith('ig_post_')
IsSimulatedPost(mediaId) == mediaId = IgSimulatedId

\* (mutant) the age test without the stored fetch time
MediaIgnoresFetchTime(api, t, forceRefresh) ==
    ~forceRefresh /\ api.mediaCache # NULL /\ t < CACHE_TTL

\* !forceRefresh && this.mediaCache && (now - this.lastMediaFetch) < this.CACHE_TTL
MediaIsFresh(api, t, forceRefresh) ==
    ~forceRefresh /\ api.mediaCache # NULL /\ (t - api.lastMediaFetch) < CACHE_TTL

\* !forceRefresh && commentsCache.has(mediaId) && lastCommentsRefresh.has(mediaId)
\* && (now - (lastCommentsRefresh.get(mediaId) || 0)) < CACHE_TTL
CommentsAreFresh(api, mediaId, t, forceRefresh) ==
    /\ ~forceRefresh
    /\ api.commentsCache[mediaId] # NULL
    /\ api.lastCommentsRefresh[mediaId] # 0
    /\ (t - api.lastCommentsRefresh[mediaId]) < CACHE_TTL

\* getMedia(limit, forceRefresh) up to its return from the cache or to the
\* awaited request
GetMediaCall(forceRefresh) ==
    /\ IF MediaIsFresh(instagramApi, now, forceRefresh)
       THEN /\ lastRead' = Settled("getMedia", NULL, "hit", instagramApi.mediaCache)
            /\ UNCHANGED igReads
       ELSE /\ Cardinality(igReads) < MaxInFlight
            /\ igReads' = igReads \cup
                    {[op |-> "getMedia", mediaId |-> NULL, now |-> now,
                      forceRefresh |-> forceRefresh]}
            /\ igReads' # igReads
            /\ UNCHANGED lastRead
    /\ UNCHANGED <<now, instagramApi, publishVars, fetchVars, adapterVars>>

\* getComments(mediaId, forceRefresh) up to its return from the cache or to
\* the awaited request
GetCommentsCall(mediaId, forceRefresh) ==
    /\ IF CommentsAreFresh(instagramApi, mediaId, now, forceRefresh)
       THEN /\ lastRead' = Settled("getComments", mediaId, "hit",
                                   instagramApi.commentsCache[mediaId])
            /\ UNCHANGED igReads
       ELSE /\ Cardinality(igReads) < MaxInFlight
            /\ igReads' = igReads \cup
                    {[op |-> "getComments", mediaId |-> mediaId, now |-> now,
                      forceRefresh |-> forceRefresh]}
            /\ igReads' # igReads
            /\ UNCHANGED lastRead
    /\ UNCHANGED <<now, instagramApi, publishVars, fetchVars, adapterVars>>

\* the request of a getMedia call succeeds with response.data = value
GetMediaResolve(r, value) ==
    /\ r \in igReads /\ r.op = "getMedia"
    /\ instagramApi' = [instagramApi EXCEPT !.mediaCache = value,
                                            !.lastMediaFetch = r.now]
    /\ igReads' = igReads \ {r}
    /\ lastRead' = Settled("getMedia", NULL, "fetched", value)
    /\ UNCHANGED <<now, publishVars, fetchVars, adapterVars>>

\* (mutant) a catch block that always rethrows
MediaFailureRethrows(api) == Settled("getMedia", NULL, "threw", NULL)

\* the catch block of getMedia: the cached list when there is one, else the error
MediaFailureOutcome(api) ==
    IF api.mediaCache # NULL
    THEN Settled("getMedia", NULL, "stale", api.mediaCache)
    ELSE Settled("getMedia", NULL, "threw", NULL)

\* the request of a getMedia call fails
GetMediaFail(r) ==
    /\ r \in igReads /\ r.op = "getMedia"
    /\ igReads' = igReads \ {r}
    /\ lastRead' = MediaFailureOutcome(instagramApi)
    /\ UNCHANGED <<now, instagramApi, publishVars, fetchVars, adapterVars>>

\* the request of a getComments call succeeds with response = value
GetCommentsResolve(r, value) ==
    /\ r \in igReads /\ r.op = "getComments"
    /\ instagramApi' = [instagramApi EXCEPT !.commentsCache[r.mediaId] = value,
                                            !.lastCommentsRefresh[r.mediaId] = r.now]
    /\ igReads' = igReads \ {r}
    /\ lastRead' = Settled("getComments", r.mediaId, "fetched", value)
    /\ UNCHANGED <<now, publishVars, fetchVars, adapterVars>>

\* (mutant) a catch block of getComments without the branch for simulated posts
CommentsFailureNoFallback(api, mediaId) ==
    IF api.commentsCache[mediaId] # NULL
    THEN Settled("getComments", mediaId, "stale", api.commentsCache[mediaId])
    ELSE Settled("getComments", mediaId, "threw", NULL)

\* the catch block of getComments: the cached response when there is one, an
\* empty list for a simulated post, else the error
CommentsFailureOutcome(api, mediaId) ==
    IF api.commentsCache[mediaId] # NULL
    THEN Settled("getComments", mediaId, "stale", api.commentsCache[mediaId])
    ELSE IF IsSimulatedPost(mediaId)
    THEN Settled("getComments", mediaId, "empty", EmptyComments)
    ELSE Settled("getComments", mediaId, "threw", NULL)

\* the request of a getComments call fails
GetCommentsFail(r) ==
    /\ r \in igReads /\ r.op = "getComments"
    /\ igReads' = igReads \ {r}
    /\ lastRead' = CommentsFailureOutcome(instagramApi, r.mediaId)
    /\ UNCHANGED <<now, instagramApi, publishVars, fetchVars, adapterVars>>

\* time passes
Tick ==
    /\ now < StartTime + MaxTicks * TickMs
    /\ now' = now + TickMs
    /\ UNCHANGED <<instagramApi, igReads, lastRead, publishVars, fetchVars, adapterVars>>

\* ------------------------------------------------------------------------
\* useCommentsStore and the data the Comments page works on
\* ------------------------------------------------------------------------

\* comment texts
Texts == {"hi", "yo"}

\* timestamps of platform comments: before the posts were created locally
\* (createdAt is 1..MaxPosts), or after
CommentDates == {0, MaxPosts + 1}

\* an identifier: a uuid, a native platform id, the stable id built from a
\* stats activity, or that stable id behind the prefix 'stats_comment_'
Id(kind, text, n) == [kind |-> kind, text |-> text, n |-> n]

\* the id the platform gave the comment under a media item
NativeCommentId(mediaId) == IF mediaId = "n1" THEN "c1" ELSE "c2"

\* the comments the platform lists under a media item: none, or one
CommentThreads(mediaId) ==
    {<<>>} \cup {<<[id |-> NativeCommentId(mediaId), text |-> t, timestamp |-> d]>> :
                    t \in Texts, d \in CommentDates}

\* the accounts considered: one or two media items, each with its thread
Accounts ==
    UNION {{[media |-> ml, comments |-> c] :
                c \in {f \in [Range(ml) -> UNION {CommentThreads(m) : m \in Range(ml)}] :
                          \A m \in Range(ml) : f[m] \in CommentThreads(m)}}
           : ml \in {x \in MediaLists : Len(x) > 0}}

NoAccount == [media |-> <<>>, comments |-> <<>>]

\* platformStats[platform] = null
NoStats == [present |-> FALSE, recentActivity |-> <<>>]

\* the activity list with one more entry, kept ordered by date, latest first;
\* entries of equal date keep their order
RECURSIVE InsertByDate(_, _)
InsertByDate(sorted, a) ==
    IF sorted = <<>> THEN <<a>>
    ELSE IF Head(sorted).date < a.date THEN <<a>> \o sorted
    ELSE <<Head(sorted)>> \o InsertByDate(Tail(sorted), a)

\* recentActivity.sort((a, b) => b.date.getTime() - a.date.getTime())
RECURSIVE SortByDate(_)
SortByDate(activities) ==
    IF activities = <<>> THEN <<>>
    ELSE InsertByDate(SortByDate(SubSeq(activities, 1, Len(activities) - 1)),
                      activities[Len(activities)])

\* the activities getAccountStats collects for the media items, in order
RECURSIVE ActivitiesOf(_, _)
ActivitiesOf(account, media) ==
    IF media = <<>> THEN <<>>
    ELSE LET thread == account.comments[Head(media)]
         IN <<[type |-> "post", content |-> "caption", date |-> 0]>>
            \o (IF Len(thread) > 0
                THEN <<[type |-> "comment", content |-> thread[1].text,
                        date |-> thread[1].timestamp]>>
                ELSE <<>>)
            \o ActivitiesOf(account, Tail(media))

\* the quotient a / b as a fraction; a denominator of 0 is a division by zero
Quotient(a, b) == [num |-> a, den |-> b]

\* (mutant) totalComments / totalPosts without the test for zero
Unguarded(totalComments, totalPosts) == Quotient(totalComments, totalPosts)

\* totalPosts > 0 ? totalComments / totalPosts : 0
EngagementRate(totalComments, totalPosts) ==
    IF totalPosts > 0 THEN Quotient(totalComments, totalPosts) ELSE Quotient(0, 1)

\* totalComments += comments.data?.length || 0 over the media items
RECURSIVE TotalComments(_, _)
TotalComments(account, media) ==
    IF media = <<>> THEN 0
    ELSE Len(account.comments[Head(media)]) + TotalComments(account, Tail(media))

\* InstagramApiService.getAccountStats when its requests succeed
AccountStats(account) ==
    [present |-> TRUE,
     totalPosts |-> Len(account.media),
     totalComments |->
        TotalComments(account, SubSeq(account.media, 1,
                         IF Len(account.media) < 5 THEN Len(account.media) ELSE 5)),
     engagementRate |->
        IF Len(account.media) = 0 THEN Quotient(0, 1)
        ELSE EngagementRate(
                TotalComments(account, SubSeq(account.media, 1,
                                 IF Len(account.media) < 5 THEN Len(account.media) ELSE 5)),
                Len(account.media)),
     recentActivity |->
        LET sorted == SortByDate(ActivitiesOf(account, SubSeq(account.media, 1,
                                    IF Len(account.media) < 5 THEN Len(account.media) ELSE 5)))
        IN SubSeq(sorted, 1, IF Len(sorted) < 5 THEN Len(sorted) ELSE 5)]

\* addManyComments(commentsData): every comment gets a fresh uuid as its id
AddManyComments(store, commentsData) ==
    store \o [k \in 1..Len(commentsData) |->
                [commentsData[k] EXCEPT !.id = Id("uuid", "", Len(store) + k)]]

\* ------------------------------------------------------------------------
\* The Comments page: extractCommentsFromStats and fetchAllComments
\* ------------------------------------------------------------------------

\* visits of the Comments page and fetchAllComments calls in one behaviour
MaxMounts == 2
MaxCycles == 3

\* postId: '' when a stats comment matches no post
NoPostId == 0

\* the useState values of a Comments page that has just mounted
NewPage(inst) ==
    [inst |-> inst, mounted |-> TRUE, isFetching |-> FALSE, isLoading |-> FALSE,
     fetchError |-> FALSE, commentsFetched |-> FALSE]

NoPage == [NewPage(0) EXCEPT !.mounted = FALSE]

\* the published posts that carry a real Instagram id
InstagramPosts(posts) ==
    SelectSeq(posts, LAMBDA post :
        /\ post.status = "published"
        /\ "instagram" \in Range(post.platforms)
        /\ HasInstagramId(post)
        /\ ~IsSimulatedPost(post.platformPostIds["instagram"]))

\* instagramPosts.find(post => new Date(post.createdAt) < activity.date)
MatchingPosts(instagramPosts, activity) ==
    SelectSeq(instagramPosts, LAMBDA post : post.createdAt < activity.date)

\* the comment extractCommentsFromStats builds from one activity
StatsComment(instagramPosts, activity) ==
    LET matching == MatchingPosts(instagramPosts, activity)
        fallbackPostId == instagramPosts[1].platformPostIds["instagram"]
    IN [id |-> Id("stable", activity.content, activity.date),
        platform |-> "instagram",
        postId |-> IF matching # <<>> THEN matching[1].id ELSE NoPostId,
        platformPostId |-> IF matching # <<>>
                           THEN matching[1].platformPostIds["instagram"]
                           ELSE fallbackPostId,
        platformCommentId |-> Id("stats", activity.content, activity.date),
        content |-> activity.content,
        replied |-> FALSE]

\* comments.find(c => c.id === stableId ||
\*                    (c.content === activity.content && c.platform === 'instagram'))
ExistingComment(storeComments, activity) ==
    \E k \in 1..Len(storeComments) :
        \/ storeComments[k].id = Id("stable", activity.content, activity.date)
        \/ /\ storeComments[k].content = activity.content
           /\ storeComments[k].platform = "instagram"

RECURSIVE StatsComments(_, _, _)
StatsComments(activities, instagramPosts, storeComments) ==
    IF activities = <<>> THEN <<>>
    ELSE (IF ~ExistingComment(storeComments, Head(activities))
             /\ Head(activities).content # EmptyString
          THEN <<StatsComment(instagramPosts, Head(activities))>>
          ELSE <<>>)
         \o StatsComments(Tail(activities), instagramPosts, storeComments)

\* extractCommentsFromStats() over the platformStats, posts and comments of
\* the render that created it
ExtractCommentsFromStats(stats, posts, storeComments) ==
    IF ~stats.present \/ InstagramPosts(posts) = <<>> THEN <<>>
    ELSE StatsComments(SelectSeq(stats.recentActivity, LAMBDA a : a.type = "comment"),
                       InstagramPosts(posts), storeComments)

\* commentsResponse.data.map(...) for one post
PostComments(post, thread) ==
    [k \in 1..Len(thread) |->
        [id |-> Id("native", thread[k].id, 0),
         platform |-> "instagram",
         postId |-> post.id,
         platformPostId |-> post.platformPostIds["instagram"],
         platformCommentId |-> Id("native", thread[k].id, 0),
         content |-> thread[k].text,
         replied |-> FALSE]]

\* the comments of the posts whose getComments request succeeded, in order
RECURSIVE FetchedComments(_, _, _)
FetchedComments(account, instagramPosts, succeeded) ==
    IF instagramPosts = <<>> THEN <<>>
    ELSE (IF Head(instagramPosts).id \in succeeded
             /\ Head(instagramPosts).platformPostIds["instagram"] \in DOMAIN account.comments
          THEN PostComments(Head(instagramPosts),
                            account.comments[Head(instagramPosts).platformPostIds["instagram"]])
          ELSE <<>>)
         \o FetchedComments(account, Tail(instagramPosts), succeeded)

\* `${comment.platform}_${comment.platformPostId}_${comment.content}`
CommentKey(comment) == <<comment.platform, comment.platformPostId, comment.content>>

\* the Map of unique comments: the first comment of a key is the one kept
UniqueComments(batch) ==
    LET first == {k \in 1..Len(batch) :
                     \A j \in 1..(k - 1) : CommentKey(batch[j]) # CommentKey(batch[k])}
        RECURSIVE Pick(_)
        Pick(k) == IF k > Len(batch) THEN <<>>
                   ELSE (IF k \in first THEN <<batch[k]>> ELSE <<>>) \o Pick(k + 1)
    IN Pick(1)

\* the comment store after the batch is reconciled into it
Reconciled(store, batch) ==
    IF Len(batch) > 0 THEN AddManyComments(<<>>, UniqueComments(batch)) ELSE store

\* the states of the store that set() hands to its subscribers while the batch
\* is reconciled: the one clearAllComments() leaves, then the one
\* addManyComments(newComments) leaves
StoreUpdates(store, batch) ==
    IF Len(batch) > 0
    THEN <<<<>>, AddManyComments(<<>>, UniqueComments(batch))>>
    ELSE <<>>

\* what the stores held when the cycle's getPlatformStats call had returned
Seen(answered, stats, storeComments) ==
    [answered |-> answered, platformStats |-> stats, comments |-> storeComments]

NothingSeen == Seen(FALSE, NoStats, <<>>)

NoCall == [inFlight |-> FALSE, started |-> FALSE, cleared |-> FALSE]
EmptyLog == [history |-> <<>>, batch |-> <<>>, stored |-> <<>>, call |-> NoCall,
             notified |-> <<>>,
             used |-> [platformStats |-> NoStats, comments |-> <<>>],
             seen |-> NothingSeen]

\* fetchAllComments() called from a render whose useState values are caller;
\* the callback holds the comments, posts, platformStats and platformsEnabled
\* of that render
FetchAllComments(caller) ==
    LET cleared == Len(comments) > 0 /\ Len(postsStore.posts) = 0
        enabledPlatforms == {p \in Platform : platformsEnabled[p]}
        starts == ~caller.isFetching /\ enabledPlatforms # {}
        cycle == [inst |-> caller.inst, pc |-> "stats", comments |-> comments,
                  posts |-> postsStore.posts, platformStats |-> platformStats["instagram"],
                  platformsEnabled |-> platformsEnabled, batch |-> <<>>,
                  statsOk |-> FALSE, solo |-> cycles = {},
                  seen |-> NothingSeen]
    IN /\ comments' = IF cleared THEN <<>> ELSE comments
       /\ cycles' = IF starts
                    THEN {[c EXCEPT !.solo = FALSE] : c \in cycles} \cup {cycle}
                    ELSE cycles
       /\ page' = IF caller.isFetching THEN caller
                  ELSE IF enabledPlatforms = {}
                  THEN [caller EXCEPT !.fetchError = TRUE, !.isLoading = FALSE,
                                      !.isFetching = FALSE]
                  ELSE [caller EXCEPT !.isFetching = TRUE, !.isLoading = TRUE,
                                      !.fetchError = FALSE]
       /\ fetchLog' = [fetchLog EXCEPT !.call = [inFlight |-> cycles # {},
                                                 started |-> starts,
                                                 cleared |-> cleared]]

\* fetchAllComments calls that started a cycle
CyclesStarted == Len(fetchLog.history) + Cardinality(cycles)

\* the user opens the Comments page; Instagram is enabled and the account's
\* media are in the posts store, so the mount effect changes neither
MountPage ==
    /\ ~page.mounted
    /\ page.inst < MaxMounts
    /\ page' = NewPage(page.inst + 1)
    /\ UNCHANGED <<comments, platformStats, igAccount, cycles, fetchLog,
                   publishVars, cacheVars, adapterVars>>

\* the user leaves the Comments page: its useState values are dropped
LeavePage ==
    /\ page.mounted
    /\ page' = [NewPage(page.inst) EXCEPT !.mounted = FALSE]
    /\ UNCHANGED <<comments, platformStats, igAccount, cycles, fetchLog,
                   publishVars, cacheVars, adapterVars>>

\* the effect on posts.length: fetchAllComments(); setCommentsFetched(true)
FetchEffect ==
    /\ page.mounted
    /\ ~page.commentsFetched
    /\ Len(postsStore.posts) > 0
    /\ CyclesStarted < MaxCycles
    /\ FetchAllComments([page EXCEPT !.commentsFetched = TRUE])
    /\ UNCHANGED <<platformStats, igAccount, publishVars, cacheVars, adapterVars>>

\* a Refresh button, disabled while isLoading || isFetching
RefreshClick ==
    /\ page.mounted
    /\ page.commentsFetched
    /\ ~page.isLoading
    /\ ~page.isFetching
    /\ CyclesStarted < MaxCycles
    /\ FetchAllComments(page)
    /\ UNCHANGED <<platformStats, igAccount, publishVars, cacheVars, adapterVars>>

\* (mutant) the finally block leaves the flags as they are
FlagsKept(p) == p

\* finally { setIsLoading(false); setIsFetching(false) }
FinallyBlock(p) == [p EXCEPT !.isLoading = FALSE, !.isFetching = FALSE]

\* the end of a cycle: the batch is reconciled into the store and the finally
\* block resets the flags of the page instance that started the cycle
FinishCycle(c, batch, ok, seen) ==
    /\ comments' = Reconciled(comments, batch)
    /\ cycles' = cycles \ {c}
    /\ page' = IF page.mounted /\ page.inst = c.inst
               THEN FinallyBlock(page)
               ELSE page
    /\ fetchLog' = [fetchLog EXCEPT
                       !.history = Append(@, [size |-> Len(Reconciled(comments, batch)),
                                              solo |-> c.solo, ok |-> ok,
                                              platformStats |-> c.platformStats]),
                       !.batch = batch,
                       !.stored = Reconciled(comments, batch),
                       !.notified = IF page.mounted THEN StoreUpdates(comments, batch)
                                    ELSE <<>>,
                       !.used = [platformStats |-> c.platformStats,
                                 comments |-> c.comments],
                       !.seen = seen]

\* await socialMediaCoordinator.getPlatformStats() settles; ok tells whether
\* getAccountStats answered.  The stats comments come next and, when the
\* callback's platformStats.instagram is set, the requests for the comments
FetchStatsSettled(c, ok) ==
    /\ c \in cycles
    /\ c.pc = "stats"
    /\ LET answered == ok /\ ~GetApiServiceThrows(platformsEnabled, apiCredentials,
                                                   apiSlot, "instagram")
           batch == ExtractCommentsFromStats(c.platformStats, c.posts, c.comments)
           direct == /\ c.platformsEnabled["instagram"]
                     /\ c.platformStats.present
                     /\ InstagramPosts(c.posts) # <<>>
                     /\ ~GetApiServiceThrows(platformsEnabled, apiCredentials,
                                             apiSlot, "instagram")
           seen == Seen(answered,
                        IF answered THEN AccountStats(igAccount)
                        ELSE platformStats["instagram"],
                        comments)
       IN /\ platformStats' = IF answered
                              THEN [platformStats EXCEPT
                                        !["instagram"] = AccountStats(igAccount)]
                              ELSE platformStats
          /\ apiSlot' = GetApiServiceSlot(platformsEnabled, apiCredentials,
                                          apiSlot, "instagram")
          /\ IF direct
             THEN /\ cycles' = (cycles \ {c})
                               \cup {[c EXCEPT !.pc = "comments", !.batch = batch,
                                               !.statsOk = answered, !.seen = seen]}
                  /\ UNCHANGED <<comments, page, fetchLog>>
             ELSE FinishCycle(c, batch, answered, seen)
    /\ UNCHANGED <<igAccount, settingsVars, pub, postsVars, cacheVars, adapterVars>>

\* the getComments requests of the cycle have settled; succeeded holds the
\* posts whose request was answered
FetchCommentsSettled(c, succeeded) ==
    /\ c \in cycles
    /\ c.pc = "comments"
    /\ succeeded \subseteq {InstagramPosts(c.posts)[k].id :
                               k \in 1..Len(InstagramPosts(c.posts))}
    /\ FinishCycle(c,
                   c.batch \o FetchedComments(igAccount, InstagramPosts(c.posts), succeeded),
                   c.statsOk /\ Len(InstagramPosts(c.posts)) = Cardinality(succeeded),
                   c.seen)
    /\ UNCHANGED <<platformStats, igAccount, publishVars, cacheVars, adapterVars>>

\* the comments under media item m are deleted on the platform
CommentsRemoved(m) ==
    /\ m \in DOMAIN igAccount.comments
    /\ igAccount.comments[m] # <<>>
    /\ igAccount' = [igAccount EXCEPT !.comments[m] = <<>>]
    /\ UNCHANGED <<comments, platformStats, page, cycles, fetchLog,
                   publishVars, cacheVars, adapterVars>>

\* ------------------------------------------------------------------------
\* The factory and the handlers that change the stored settings
\* ------------------------------------------------------------------------

\* the tokens a user can store; Comments.tsx stores the first one itself
Tokens == {1, 2}

NoGet == [called |-> FALSE, platform |-> "instagram", enabled |-> FALSE, credentials |-> 0,
          slotBefore |-> 0, threw |-> FALSE, adapter |-> 0, slotAfter |-> 0]

\* apiFactory.getApiService(platform) called by any part of the program; an
\* adapter is known by the credentials it was constructed from
GetApiService(platform) ==
    /\ apiSlot' = GetApiServiceSlot(platformsEnabled, apiCredentials, apiSlot, platform)
    /\ factoryLog' =
          [called |-> TRUE, platform |-> platform,
           enabled |-> platformsEnabled[platform],
           credentials |-> apiCredentials[platform],
           slotBefore |-> apiSlot[platform],
           threw |-> GetApiServiceThrows(platformsEnabled, apiCredentials, apiSlot, platform),
           adapter |-> IF GetApiServiceThrows(platformsEnabled, apiCredentials,
                                              apiSlot, platform)
                       THEN 0
                       ELSE GetApiServiceSlot(platformsEnabled, apiCredentials,
                                              apiSlot, platform)[platform],
           slotAfter |-> GetApiServiceSlot(platformsEnabled, apiCredentials,
                                           apiSlot, platform)[platform]]
    /\ UNCHANGED <<settingsVars, pub, postsVars, cacheVars, fetchVars,
                   statsRun, replyCall, errorCase, accountStats, youtubeApi>>

\* a credentials form of the Settings page is submitted: the credentials are
\* stored, the platform is enabled and the factory's slot is reset
SaveCredentials(platform, token) ==
    /\ apiCredentials' = [apiCredentials EXCEPT ![platform] = token]
    /\ platformsEnabled' = [platformsEnabled EXCEPT ![platform] = TRUE]
    /\ apiSlot' = [apiSlot EXCEPT ![platform] = 0]
    /\ UNCHANGED <<pub, postsVars, cacheVars, fetchVars, adapterVars>>

\* handleClearCredentials(platform)
ClearCredentials(platform) ==
    /\ apiCredentials' = [apiCredentials EXCEPT ![platform] = 0]
    /\ platformsEnabled' = [platformsEnabled EXCEPT ![platform] = FALSE]
    /\ apiSlot' = [apiSlot EXCEPT ![platform] = 0]
    /\ UNCHANGED <<pub, postsVars, cacheVars, fetchVars, adapterVars>>

\* togglePlatform(platform, enabled)
TogglePlatform(platform, enabled) ==
    /\ platformsEnabled' = [platformsEnabled EXCEPT ![platform] = enabled]
    /\ UNCHANGED <<apiCredentials, apiSlot, pub, postsVars, cacheVars, fetchVars, adapterVars>>

\* the mount effect of the Comments page finds Instagram off: it enables the
\* platform and stores its own token; the factory's slot is not reset
ConnectInstagram ==
    /\ ~platformsEnabled["instagram"]
    /\ platformsEnabled' = [platformsEnabled EXCEPT !["instagram"] = TRUE]
    /\ apiCredentials' = [apiCredentials EXCEPT !["instagram"] = 1]
    /\ UNCHANGED <<apiSlot, pub, postsVars, cacheVars, fetchVars, adapterVars>>

\* ------------------------------------------------------------------------
\* The coordinator's getPlatformStats
\* ------------------------------------------------------------------------

\* Object.entries(settings.platformsEnabled): the platforms in key order
PlatformOrder == <<"instagram", "youtube", "tiktok", "facebook">>

\* enabledPlatforms
EnabledPlatforms(enabled) == SelectSeq(PlatformOrder, LAMBDA p : enabled[p])

\* the stats an adapter's getAccountStats resolves to
StatsOf(platform) == [present |-> TRUE, recentActivity |-> <<>>, platform |-> platform]

\* how getAccountStats settles when its requests fail: the TikTok adapter
\* resolves to mock stats and the Facebook adapter to default stats, the
\* Instagram and YouTube adapters reject
GetAccountStatsSettles(platform, ok) ==
    IF ok \/ platform \in {"tiktok", "facebook"} THEN "resolved" ELSE "rejected"

\* (mutant) the error of one platform ends the loop of getPlatformStats
StatsAbortAfterCatch(i, n) == n + 1

\* the loop index of getPlatformStats after its catch block
StatsIndexAfterCatch(i, n) == i + 1

StatsIdle ==
    [pc |-> "idle", platforms |-> <<>>, i |-> 0,
     attempts |-> [p \in Platform |-> "none"], escaped |-> FALSE]

\* the call state once the loop moves from platform number i to index j
StatsAdvance(run, platform, attempt, j) ==
    [run EXCEPT !.attempts[platform] = attempt,
                !.i = j,
                !.pc = IF j > Len(run.platforms) THEN "returned" ELSE "loop"]

\* getPlatformStats() is entered
StatsCall ==
    /\ statsRun.pc = "idle"
    /\ statsRun' = [StatsIdle EXCEPT
                       !.platforms = EnabledPlatforms(platformsEnabled),
                       !.i = 1,
                       !.pc = IF EnabledPlatforms(platformsEnabled) = <<>>
                              THEN "returned" ELSE "loop"]
    /\ UNCHANGED <<publishVars, cacheVars, fetchVars,
                   factoryLog, replyCall, errorCase, accountStats, youtubeApi>>

\* one pass of the loop up to the awaited getAccountStats
StatsBegin ==
    /\ statsRun.pc = "loop"
    /\ LET platform == statsRun.platforms[statsRun.i]
       IN IF GetApiServiceThrows(platformsEnabled, apiCredentials, apiSlot, platform)
          THEN /\ statsRun' = StatsAdvance(statsRun, platform, "threw",
                                  StatsIndexAfterCatch(statsRun.i, Len(statsRun.platforms)))
               /\ UNCHANGED apiSlot
          ELSE /\ statsRun' = [statsRun EXCEPT !.pc = "await"]
               /\ apiSlot' = GetApiServiceSlot(platformsEnabled, apiCredentials,
                                               apiSlot, platform)
    /\ UNCHANGED <<settingsVars, pub, postsVars, cacheVars, fetchVars,
                   factoryLog, replyCall, errorCase, accountStats, youtubeApi>>

\* the awaited getAccountStats settles: its stats are written to the stats
\* map, or its error is caught
StatsSettle(ok) ==
    /\ statsRun.pc = "await"
    /\ LET platform == statsRun.platforms[statsRun.i]
       IN IF GetAccountStatsSettles(platform, ok) = "resolved"
          THEN /\ platformStats' = [platformStats EXCEPT ![platform] = StatsOf(platform)]
               /\ statsRun' = StatsAdvance(statsRun, platform, "resolved", statsRun.i + 1)
          ELSE /\ UNCHANGED platformStats
               /\ statsRun' = StatsAdvance(statsRun, platform, "rejected",
                                  StatsIndexAfterCatch(statsRun.i, Len(statsRun.platforms)))
    /\ UNCHANGED <<publishVars, cacheVars, comments, igAccount, page, cycles, fetchLog,
                   factoryLog, replyCall, errorCase, accountStats, youtubeApi>>

\* ------------------------------------------------------------------------
\* getAccountStats of the four adapters: the totals and the engagement rate
\* ------------------------------------------------------------------------

\* the largest number of posts and of comments an account answers with
MaxItems == 5

\* generateMockStats: Math.floor(Math.random() * 30) + 5 posts and
\* Math.floor(Math.random() * 500) + 50 comments, at their extremes
MockPosts == {5, 34}
MockComments == {50, 549}

Totals(path, totalPosts, totalComments, rate) ==
    [path |-> path, threw |-> FALSE, totalPosts |-> totalPosts,
     totalComments |-> totalComments, engagementRate |-> rate]

StatsThrew(path) ==
    [path |-> path, threw |-> TRUE, totalPosts |-> 0, totalComments |-> 0,
     engagementRate |-> Quotient(0, 1)]

\* what the platform answers to getAccountStats: ok tells whether the first
\* request succeeded, posts and comments are the counts its responses carry
StatsReplies == [ok : BOOLEAN, posts : 0..MaxItems, comments : 0..MaxItems]

\* InstagramApiService.getAccountStats over the counts of a reply
InstagramAccountStats(reply) ==
    IF ~reply.ok THEN StatsThrew("instagram")
    ELSE IF reply.posts = 0 THEN Totals("instagram-empty", 0, 0, Quotient(0, 1))
    ELSE Totals("instagram", reply.posts, reply.comments,
                EngagementRate(reply.comments, reply.posts))

\* TikTokApiService.getAccountStats, with generateMockStats on failure
TikTokAccountStats(reply, mockPosts, mockComments) ==
    IF ~reply.ok
    THEN Totals("tiktok-mock", mockPosts, mockComments, Quotient(mockComments, mockPosts))
    ELSE Totals("tiktok", reply.posts, reply.comments,
                EngagementRate(reply.comments, reply.posts))

\* YouTubeApiService.getAccountStats
YouTubeAccountStats(reply) ==
    IF ~reply.ok THEN StatsThrew("youtube")
    ELSE Totals("youtube", reply.posts, reply.comments,
                EngagementRate(reply.comments, reply.posts))

\* FacebookApiService.getAccountStats: the posts of the page, else the feed
\* (whose comments are not fetched), else no posts; default stats when the
\* page id cannot be obtained
FacebookAccountStats(reply, idKnown, feedOk) ==
    IF ~idKnown THEN Totals("facebook-default", 0, 0, Quotient(0, 1))
    ELSE IF reply.ok
    THEN Totals("facebook", reply.posts, reply.comments,
                EngagementRate(reply.comments, reply.posts))
    ELSE IF feedOk
    THEN Totals("facebook-feed", reply.posts, 0, EngagementRate(0, reply.posts))
    ELSE Totals("facebook-none", 0, 0, EngagementRate(0, 0))

NoStatsCall == Totals("none", 0, 0, Quotient(0, 1))

\* api.getAccountStats() is called on one of the adapters and settles
GetAccountStats(platform, reply) ==
    /\ \E mockPosts \in MockPosts, mockComments \in MockComments, idKnown, feedOk \in BOOLEAN :
          accountStats' =
             CASE platform = "instagram" -> InstagramAccountStats(reply)
               [] platform = "tiktok" -> TikTokAccountStats(reply, mockPosts, mockComments)
               [] platform = "youtube" -> YouTubeAccountStats(reply)
               [] platform = "facebook" -> FacebookAccountStats(reply, idKnown, feedOk)
    /\ UNCHANGED <<publishVars, cacheVars, fetchVars,
                   factoryLog, statsRun, replyCall, errorCase, youtubeApi>>

\* ------------------------------------------------------------------------
\* replyToComment of the four adapters
\* ------------------------------------------------------------------------

\* an id is the sequence of its parts between underscores: '42' is <<"42">>,
\* '17_42' is <<"17", "42">>; the empty sequence is an absent or empty id
NoId == <<>>
ReplyPostIds == {NoId, <<"n1">>, <<"ig", "post", "sim">>}
ReplyCommentIds == {NoId, <<"42">>, <<"17", "42">>}
ReplyTexts == {"", " ", "hi", "yo"}

\* the request a replyToComment call sends: the resource it is posted to
\* ("replies" or "comments" of a comment, "comments" of a post, or the
\* comments collection), the id in the path and the parent id in the body
Request(resource, path, parent) ==
    [sent |-> TRUE, resource |-> resource, path |-> path, parent |-> parent]

NoRequest == [sent |-> FALSE, resource |-> "none", path |-> NoId, parent |-> NoId]

\* commentId.includes('_') ? commentId.split('_').pop() || commentId : commentId
CleanCommentId(commentId) ==
    IF Len(commentId) > 1 THEN <<commentId[Len(commentId)]>> ELSE commentId

\* InstagramApiService.replyToComment(mediaId, commentText, commentId)
InstagramReplyToComment(mediaId, commentText, commentId) ==
    IF mediaId = NoId \/ commentText \in {"", " "} THEN NoRequest
    ELSE IF Len(mediaId) > 1 /\ mediaId[1] = "ig" /\ mediaId[2] = "post" THEN NoRequest
    ELSE IF commentId # NoId
    THEN Request("comment-replies", CleanCommentId(commentId), NoId)
    ELSE Request("post-comments", mediaId, NoId)

\* TikTokApiService.replyToComment(videoId, commentId, text)
TikTokReplyToComment(videoId, commentText, commentId) ==
    Request("post-comments", videoId, commentId)

\* YouTubeApiService.replyToComment(commentId, text)
YouTubeReplyToComment(commentText, commentId) ==
    Request("comments", NoId, commentId)

\* FacebookApiService.replyToComment(postId, message, commentId)
FacebookReplyToComment(postId, message, commentId) ==
    Request("comment-comments", commentId, NoId)

NoReply == [platform |-> "instagram", postId |-> NoId, commentId |-> NoId,
            text |-> "", request |-> NoRequest]

\* replyToComment is called on one of the adapters
ReplyToComment(platform, postId, commentText, commentId) ==
    /\ replyCall' =
          [platform |-> platform, postId |-> postId, commentId |-> commentId,
           text |-> commentText,
           request |->
              CASE platform = "instagram" ->
                      InstagramReplyToComment(postId, commentText, commentId)
                [] platform = "tiktok" -> TikTokReplyToComment(postId, commentText, commentId)
                [] platform = "youtube" -> YouTubeReplyToComment(commentText, commentId)
                [] platform = "facebook" ->
                      FacebookReplyToComment(postId, commentText, commentId)]
    /\ UNCHANGED <<publishVars, cacheVars, fetchVars,
                   factoryLog, statsRun, errorCase, accountStats, youtubeApi>>

\* ------------------------------------------------------------------------
\* BaseApiService.handleApiError and the catch block of Instagram's createPost
\* ------------------------------------------------------------------------

\* HTTP status codes of failed responses
StatusCodes == {300, 400, 401, 402, 403, 404, 409, 429, 499, 500, 502, 503, 599}

\* where the response body carries its message: data.error.message,
\* data.message, data.error_message, data itself, or nowhere
MessageShapes == {"error.message", "message", "error_message", "string", "none"}

\* what data.error.message says
ErrorTexts == {"media container", "creation_id", "other"}

\* the errors a request can be rejected with: a response with a status, a
\* request that got no response, or an error raised before anything was sent
Failures ==
    {[response |-> TRUE, request |-> TRUE, status |-> st, shape |-> sh, text |-> t] :
        st \in StatusCodes, sh \in MessageShapes, t \in ErrorTexts}
    \cup {[response |-> FALSE, request |-> rq, status |-> 0, shape |-> "none", text |-> "other"] :
            rq \in BOOLEAN}

\* new Error(`${prefix} ...`): the error an adapter operation raises
Raised(prefix, detail) == [prefix |-> prefix, detail |-> detail]

\* the message handleApiError extracts from the response
MessageOf(error) == IF error.shape = "none" THEN "statusText" ELSE error.shape

\* (mutant) every response is reported by one message, whatever its status
StatusIgnored(error) ==
    IF error.response THEN Raised("API Error", MessageOf(error))
    ELSE IF error.request THEN Raised("Network error", "none")
    ELSE Raised("API Error", "error.message")

\* BaseApiService.handleApiError(error)
HandleApiError(error) ==
    IF error.response
    THEN LET prefix ==
                IF error.status = 401 \/ error.status = 403 THEN "Authentication error"
                ELSE IF error.status = 404 THEN "Resource not found"
                ELSE IF error.status = 400 THEN "Bad request"
                ELSE IF error.status >= 500 THEN "Server error"
                ELSE "API Error"
         IN Raised(prefix, MessageOf(error))
    ELSE IF error.request THEN Raised("Network error", "none")
    ELSE Raised("API Error", "error.message")

\* the catch block of InstagramApiService.createPost
InstagramCreatePostError(error) ==
    IF error.response /\ error.status = 400
    THEN (IF error.shape = "error.message" /\ error.text = "media container"
          THEN Raised("Failed to create media container", "error.message")
          ELSE IF error.shape = "error.message" /\ error.text = "creation_id"
          THEN Raised("Failed to publish media", "error.message")
          ELSE Raised("Bad request",
                      IF error.shape = "error.message" THEN "error.message"
                      ELSE "Invalid parameters"))
    ELSE IF error.response /\ (error.status = 401 \/ error.status = 403)
    THEN Raised("Authentication error", "none")
    ELSE IF error.response /\ error.status = 404
    THEN Raised("Resource not found", "none")
    ELSE IF error.response /\ error.status >= 500
    THEN Raised("Instagram server error", "none")
    ELSE IF ~error.response /\ error.request
    THEN Raised("Network error", "none")
    ELSE HandleApiError(error)

NoFailure == [operation |-> "none",
              failure |-> [response |-> FALSE, request |-> FALSE, status |-> 0,
                           shape |-> "none", text |-> "other"],
              error |-> Raised("none", "none")]

\* a request of an adapter operation is rejected with failure and the catch
\* block of the operation raises its error
RequestFails(operation, failure) ==
    /\ errorCase' = [operation |-> operation, failure |-> failure,
                     error |-> IF operation = "createPost"
                               THEN InstagramCreatePostError(failure)
                               ELSE HandleApiError(failure)]
    /\ UNCHANGED <<publishVars, cacheVars, fetchVars,
                   factoryLog, statsRun, replyCall, accountStats, youtubeApi>>

\* ------------------------------------------------------------------------
\* YouTubeApiService: the request interceptor and refreshAccessToken
\* ------------------------------------------------------------------------

\* interceptor passes that may be nested in one call
MaxDepth == 4

\* the operations of the adapter that send a request and hand a rejection to
\* handleApiError
YouTubeOperations ==
    {"createPost", "getComments", "replyToComment", "deleteComment", "getAccountStats"}

\* a request handed to this.client: it passes the request interceptor, then
\* goes to the network
Frame(request) == [request |-> request, position |-> "interceptor", auth |-> "none"]

NoResult == [settled |-> FALSE, ok |-> FALSE, error |-> Raised("none", "none")]

\* the adapter after its constructor: no access token, no expiry, the refresh
\* token of the stored credentials if they have one
NewYouTubeApi(refreshToken) ==
    [accessToken |-> 0, tokenFresh |-> FALSE, refreshToken |-> refreshToken,
     stack |-> <<>>, refreshes |-> 0, sent |-> <<>>, result |-> NoResult]

\* this.accessToken && this.tokenExpiry && new Date() < this.tokenExpiry
TokenValid(api) == api.accessToken # 0 /\ api.tokenFresh

\* the error refreshAccessToken raises whatever made its request fail
RefreshAccessTokenError(failure) ==
    [response |-> FALSE, request |-> FALSE, status |-> 0, shape |-> "none", text |-> "other"]

Top(stack) == stack[Len(stack)]

Pop(stack) == SubSeq(stack, 1, Len(stack) - 1)

ReplaceTop(stack, frame) == [stack EXCEPT ![Len(stack)] = frame]

\* an operation of the adapter hands its request to this.client
YtCall(operation) ==
    /\ youtubeApi.stack = <<>>
    /\ youtubeApi' = [youtubeApi EXCEPT !.stack = <<Frame(operation)>>,
                                        !.refreshes = 0,
                                        !.sent = <<>>,
                                        !.result = NoResult]
    /\ UNCHANGED <<publishVars, cacheVars, fetchVars,
                   factoryLog, statsRun, replyCall, errorCase, accountStats>>

\* the request interceptor runs for the innermost request of this.client
YtIntercept ==
    /\ youtubeApi.stack # <<>>
    /\ Top(youtubeApi.stack).position = "interceptor"
    /\ LET frame == Top(youtubeApi.stack) IN
       IF TokenValid(youtubeApi)
       THEN youtubeApi' =
                [youtubeApi EXCEPT
                    !.stack = ReplaceTop(@, [frame EXCEPT !.position = "sent",
                                                          !.auth = "bearer"]),
                    !.sent = Append(@, [request |-> frame.request, auth |-> "bearer"])]
       ELSE IF youtubeApi.refreshToken
       THEN \* await this.refreshAccessToken(): this.client.post(token url)
            /\ Len(youtubeApi.stack) < MaxDepth
            /\ youtubeApi' =
                [youtubeApi EXCEPT
                    !.stack = Append(ReplaceTop(@, [frame EXCEPT !.position = "awaitRefresh"]),
                                     Frame("token")),
                    !.refreshes = @ + 1]
       ELSE youtubeApi' =
                [youtubeApi EXCEPT
                    !.stack = ReplaceTop(@, [frame EXCEPT !.position = "sent",
                                                          !.auth = "key"]),
                    !.sent = Append(@, [request |-> frame.request, auth |-> "key"])]
    /\ UNCHANGED <<publishVars, cacheVars, fetchVars,
                   factoryLog, statsRun, replyCall, errorCase, accountStats>>

\* the network answers the innermost request, which was sent
YtSettle(ok, failure) ==
    /\ youtubeApi.stack # <<>>
    /\ Top(youtubeApi.stack).position = "sent"
    /\ LET frame == Top(youtubeApi.stack)
           rest == Pop(youtubeApi.stack)
       IN IF frame.request = "token"
          THEN IF ok
               THEN \* the tokens are stored, the waiting interceptor attaches
                    \* the bearer and its request goes out
                    youtubeApi' =
                        [youtubeApi EXCEPT
                            !.accessToken = 1, !.tokenFresh = TRUE,
                            !.stack = ReplaceTop(rest, [Top(rest) EXCEPT !.position = "sent",
                                                                         !.auth = "bearer"]),
                            !.sent = Append(@, [request |-> Top(rest).request,
                                                auth |-> "bearer"])]
               ELSE \* the error of refreshAccessToken rejects every waiting
                    \* request; the operation hands it to handleApiError
                    youtubeApi' =
                        [youtubeApi EXCEPT
                            !.stack = <<>>,
                            !.result = [settled |-> TRUE, ok |-> FALSE,
                                        error |-> HandleApiError(RefreshAccessTokenError(failure))]]
          ELSE youtubeApi' =
                    [youtubeApi EXCEPT
                        !.stack = rest,
                        !.result = [settled |-> TRUE, ok |-> ok,
                                    error |-> IF ok THEN Raised("none", "none")
                                              ELSE HandleApiError(failure)]]
    /\ UNCHANGED <<publishVars, cacheVars, fetchVars,
                   factoryLog, statsRun, replyCall, errorCase, accountStats>>

\* the request of refreshAccessToken is rejected while operation waits for its
\* own request: the catch block of refreshAccessToken raises its error and the
\* catch block of the operation hands that error to handleApiError
RefreshFails(operation, failure) ==
    /\ errorCase' = [operation |-> operation, failure |-> failure,
                     error |-> HandleApiError(RefreshAccessTokenError(failure))]
    /\ UNCHANGED <<publishVars, cacheVars, fetchVars,
                   factoryLog, statsRun, replyCall, accountStats, youtubeApi>>

\* ------------------------------------------------------------------------
\* The Comments page: handleReply
\* ------------------------------------------------------------------------

\* markAsReplied(id): updateComment(id, { replied: true })
MarkAsReplied(store, id) ==
    [k \in 1..Len(store) |->
        IF store[k].id = id THEN [store[k] EXCEPT !.replied = TRUE] ELSE store[k]]

\* the parts of a comment id between underscores: a native id has one part, a
\* stable id is instagram_comment_<content>_<time>, the id of a stats comment
\* is that behind stats_comment_, a uuid has no underscore
IdParts(id) ==
    CASE id.kind = "native" -> <<id.text>>
      [] id.kind = "stable" -> <<"instagram", "comment", id.text, ToString(id.n)>>
      [] id.kind = "stats" ->
            <<"stats", "comment", "instagram", "comment", id.text, ToString(id.n)>>
      [] OTHER -> <<"uuid">>

\* the parts of a platform post id: ig_post_<random> for a simulated post
MediaIdParts(mediaId) ==
    IF IsSimulatedPost(mediaId) THEN <<"ig", "post", "sim">> ELSE <<mediaId>>

\* comment.id.includes('instagram_comment_')
IsSimulatedComment(comment) == comment.id.kind = "stable"

\* the catch block of InstagramApiService.replyToComment
InstagramReplyError(failure) ==
    IF failure.response /\ failure.status = 400
    THEN Raised("Bad request", MessageOf(failure))
    ELSE IF failure.response /\ (failure.status = 401 \/ failure.status = 403)
    THEN Raised("Authentication error", "none")
    ELSE IF failure.response /\ failure.status = 404
    THEN Raised("Comment not found", "none")
    ELSE HandleApiError(failure)

\* error.message.includes('access_token') || includes('token') || includes('auth'):
\* 'Authentication error: Your access token may be invalid or expired'
MentionsToken(error) == error.prefix = "Authentication error"

\* TRUE when handleReply goes on to markAsReplied after the replyToComment
\* call: the call returned, or the inner catch block kept its error
ReachesMarkAsReplied(accepted, error) == accepted \/ MentionsToken(error)

\* the failures a reply request is rejected with
ReplyFailures == {f \in Failures : f.shape = "none" /\ f.text = "other"}

NoHandleReply ==
    [handled |-> FALSE, index |-> 0, text |-> "", outcome |-> "none",
     request |-> NoRequest, accepted |-> FALSE, before |-> <<>>]

\* handleReply(commentId) for the k-th stored comment with reply as the text
\* typed for it; the platform accepts the request or rejects it with failure
HandleReply(k, reply, accepted, failure) ==
    /\ k \in 1..Len(comments)
    /\ LET comment == comments[k]
           blank == reply \in {"", " "}
           threw == GetApiServiceThrows(platformsEnabled, apiCredentials, apiSlot, "instagram")
           refused == IsSimulatedComment(comment) \/ IsSimulatedPost(comment.platformPostId)
           request == InstagramReplyToComment(MediaIdParts(comment.platformPostId), reply,
                                              IdParts(comment.platformCommentId))
           error == InstagramReplyError(failure)
           outcome == IF blank THEN "ignored"
                      ELSE IF threw THEN "no adapter"
                      ELSE IF refused THEN "refused"
                      ELSE IF request.sent /\ accepted THEN "accepted"
                      ELSE IF MentionsToken(error) THEN "authentication alert"
                      ELSE "failed"
           called == outcome \in {"accepted", "authentication alert", "failed"}
           marks == called /\ ReachesMarkAsReplied(request.sent /\ accepted, error)
       IN /\ apiSlot' = IF blank THEN apiSlot
                        ELSE GetApiServiceSlot(platformsEnabled, apiCredentials,
                                               apiSlot, "instagram")
          /\ comments' = IF marks THEN MarkAsReplied(comments, comment.id) ELSE comments
          /\ replyCall' = [handled |-> TRUE, index |-> k, text |-> reply,
                           outcome |-> outcome,
                           request |-> IF called THEN request ELSE NoRequest,
                           accepted |-> called /\ request.sent /\ accepted,
                           before |-> comments]
    /\ UNCHANGED <<settingsVars, pub, postsVars, cacheVars,
                   platformStats, igAccount, page, cycles, fetchLog,
                   factoryLog, statsRun, errorCase, accountStats, youtubeApi>>

\* ------------------------------------------------------------------------
\* getAccountStats of the four adapters: the posts whose comments are counted
\* ------------------------------------------------------------------------

\* the largest number of posts an account has
MaxListed == 7

\* Math.min(5, posts.length), videos.slice(0, 5)
SampleSize == 5

Min(a, b) == IF a < b THEN a ELSE b

\* the page size of the request that lists the posts
ListLimit(platform) ==
    CASE platform = "instagram" -> 25
      [] platform = "tiktok" -> 20
      [] platform = "youtube" -> 10
      [] platform = "facebook" -> 25

\* the posts the loop over the listed posts goes through, for an account of n
\* posts: the first five for Instagram and TikTok, all listed ones for
\* YouTube and Facebook
PostsCounted(platform, n) ==
    IF platform \in {"instagram", "tiktok"}
    THEN Min(SampleSize, Min(n, ListLimit(platform)))
    ELSE Min(n, ListLimit(platform))

\* the comment requests of the loop: one per post gone through; YouTube asks
\* only for the videos whose commentCount is positive
CommentRequests(platform, n, commented) ==
    IF platform = "youtube"
    THEN Min(commented, PostsCounted(platform, n))
    ELSE PostsCounted(platform, n)

NoSample == [called |-> FALSE, platform |-> "instagram", posts |-> 0, commented |-> 0,
             counted |-> 0, requests |-> 0]

\* getAccountStats of an adapter whose account has n posts, commented of them
\* with comments, all requests answered
SampleAccount(platform, n, commented) ==
    /\ accountStats' = [called |-> TRUE, platform |-> platform, posts |-> n,
                        commented |-> commented,
                        counted |-> PostsCounted(platform, n),
                        requests |-> CommentRequests(platform, n, commented)]
    /\ UNCHANGED <<publishVars, cacheVars, fetchVars,
                   factoryLog, statsRun, replyCall, errorCase, youtubeApi>>

\* ------------------------------------------------------------------------
\* Specification of one coordinator under arbitrary stored settings
\* ------------------------------------------------------------------------

\* the settings store is persisted: any combination of toggles and stored
\* credentials can be there at start-up; the factory starts with empty slots
InitSettings ==
    /\ platformsEnabled \in [Platform -> BOOLEAN]
    /\ apiCredentials \in [Platform -> {0, 1}]
    /\ apiSlot = [p \in Platform |-> 0]

InitPosts ==
    /\ postsStore = EmptyStore
    /\ nextUuid = 1
    /\ sub = SubIdle
    /\ imp = ImpIdle

InitCache ==
    /\ now = StartTime
    /\ instagramApi = NewInstagramApi(CommentPostIds)
    /\ igReads = {}
    /\ lastRead = NoRead

\* a part of the program that the specification at hand leaves at rest
Unused == "unused"

\* no adapter operation has been called
InitAdapters ==
    /\ factoryLog = Unused
    /\ statsRun = Unused
    /\ replyCall = Unused
    /\ errorCase = Unused
    /\ accountStats = Unused
    /\ youtubeApi = Unused

\* no Comments page has been opened
InitComments ==
    /\ comments = <<>>
    /\ platformStats = [p \in Platform |-> NoStats]
    /\ igAccount = NoAccount
    /\ page = NoPage
    /\ cycles = {}
    /\ fetchLog = EmptyLog

InitPublish ==
    /\ InitSettings
    /\ pub = PubIdle
    /\ InitPosts
    /\ InitCache
    /\ InitComments
    /\ InitAdapters

NextPublish ==
    \/ \E post \in PostInputs : PublishCall(post)
    \/ PublishBegin
    \/ PublishResolve

SpecPublish == InitPublish /\ [][NextPublish]_vars

\* ------------------------------------------------------------------------
\* Specification of the posts store under the form, the pages and the import
\* ------------------------------------------------------------------------

\* the settings after any sequence of set...Credentials / clearCredentials:
\* a platform is enabled exactly when its credentials are stored
InitConnected ==
    /\ apiCredentials \in [Platform -> {0, 1}]
    /\ platformsEnabled = [p \in Platform |-> apiCredentials[p] = 1]
    /\ apiSlot = [p \in Platform |-> 0]

InitSubmit ==
    /\ InitConnected
    /\ pub = PubIdle
    /\ InitPosts
    /\ InitCache
    /\ InitComments
    /\ InitAdapters

NextPosts ==
    \/ \E f \in FormInputs : SubmitPost(f)
    \/ PublishBegin
    \/ PublishResolve
    \/ SubmitFinish
    \/ DeleteScheduled
    \/ ImportCall
    \/ ImportFails
    \/ \E mediaItems \in MediaLists : ImportResolve(mediaItems)

SpecPosts == InitSubmit /\ [][NextPosts]_vars

\* ------------------------------------------------------------------------
\* Specification of one Instagram adapter's cached reads
\* ------------------------------------------------------------------------

\* a connected Instagram account whose adapter has just been constructed and
\* is asked for the media list and for the comments of one post
InitReads ==
    /\ platformsEnabled = [p \in Platform |-> p = "instagram"]
    /\ apiCredentials = [p \in Platform |-> IF p = "instagram" THEN 1 ELSE 0]
    /\ apiSlot = [p \in Platform |-> IF p = "instagram" THEN 1 ELSE 0]
    /\ pub = PubIdle
    /\ InitPosts
    /\ now = StartTime
    /\ \E mediaId \in CommentPostIds : instagramApi = NewInstagramApi({mediaId})
    /\ igReads = {}
    /\ lastRead = NoRead
    /\ InitComments
    /\ InitAdapters

NextCache ==
    \/ \E forceRefresh \in BOOLEAN : GetMediaCall(forceRefresh)
    \/ \E mediaId \in DOMAIN instagramApi.commentsCache, forceRefresh \in BOOLEAN :
          GetCommentsCall(mediaId, forceRefresh)
    \/ \E r \in igReads, value \in ReadValues : GetMediaResolve(r, value)
    \/ \E r \in igReads : GetMediaFail(r)
    \/ \E r \in igReads, value \in ReadValues : GetCommentsResolve(r, value)
    \/ \E r \in igReads : GetCommentsFail(r)
    \/ Tick

SpecCache == InitReads /\ [][NextCache]_vars

\* ------------------------------------------------------------------------
\* Specification of the Comments page's fetch cycles
\* ------------------------------------------------------------------------

\* a connected Instagram account whose media the Comments page has imported
\* into the posts store; the page is mounted and its fetch effect is due.
\* The platform stats are still null, or a visit of the Settings page has
\* loaded them
InitFetch ==
    /\ platformsEnabled = [p \in Platform |-> p = "instagram"]
    /\ apiCredentials = [p \in Platform |-> IF p = "instagram" THEN 1 ELSE 0]
    /\ apiSlot = [p \in Platform |-> IF p = "instagram" THEN 1 ELSE 0]
    /\ pub = PubIdle
    /\ igAccount \in Accounts
    /\ postsStore = ImportAll(EmptyStore, igAccount.media, 1)
    /\ nextUuid = Len(igAccount.media) + 1
    /\ sub = SubIdle
    /\ imp = ImpIdle
    /\ InitCache
    /\ comments = <<>>
    /\ platformStats \in {[p \in Platform |-> NoStats],
                          [p \in Platform |-> IF p = "instagram"
                                              THEN AccountStats(igAccount) ELSE NoStats]}
    /\ page = NewPage(1)
    /\ cycles = {}
    /\ fetchLog = EmptyLog
    /\ InitAdapters

NextFetch ==
    \/ FetchEffect
    \/ RefreshClick
    \/ LeavePage
    \/ MountPage
    \/ \E c \in cycles, ok \in BOOLEAN : FetchStatsSettled(c, ok)
    \/ \E c \in cycles, succeeded \in SUBSET (1..MaxPosts) : FetchCommentsSettled(c, succeeded)

SpecFetch == InitFetch /\ [][NextFetch]_vars

\* ------------------------------------------------------------------------
\* Specification of the fetch cycles while the platform's comments change
\* ------------------------------------------------------------------------

\* the user stays on the Comments page
NextFetchChanging ==
    \/ FetchEffect
    \/ RefreshClick
    \/ \E c \in cycles, ok \in BOOLEAN : FetchStatsSettled(c, ok)
    \/ \E c \in cycles, succeeded \in SUBSET (1..MaxPosts) : FetchCommentsSettled(c, succeeded)
    \/ \E m \in NativeIds : CommentsRemoved(m)

SpecFetchChanging == InitFetch /\ [][NextFetchChanging]_vars

\* ------------------------------------------------------------------------
\* Specification of the factory under changing settings
\* ------------------------------------------------------------------------

InitFactory ==
    /\ InitSettings
    /\ pub = PubIdle
    /\ InitPosts
    /\ InitCache
    /\ InitComments
    /\ factoryLog = NoGet
    /\ statsRun = Unused
    /\ replyCall = Unused
    /\ errorCase = Unused
    /\ accountStats = Unused
    /\ youtubeApi = Unused

NextFactory ==
    \/ \E platform \in Platform : GetApiService(platform)
    \/ \E platform \in Platform, token \in Tokens : SaveCredentials(platform, token)
    \/ \E platform \in Platform : ClearCredentials(platform)
    \/ \E platform \in Platform, enabled \in BOOLEAN : TogglePlatform(platform, enabled)
    \/ ConnectInstagram

SpecFactory == InitFactory /\ [][NextFactory]_vars

\* ------------------------------------------------------------------------
\* Specification of one getPlatformStats call under arbitrary stored settings
\* ------------------------------------------------------------------------

InitStats ==
    /\ InitSettings
    /\ pub = PubIdle
    /\ InitPosts
    /\ InitCache
    /\ InitComments
    /\ statsRun = StatsIdle
    /\ factoryLog = Unused
    /\ replyCall = Unused
    /\ errorCase = Unused
    /\ accountStats = Unused
    /\ youtubeApi = Unused

NextStats ==
    \/ StatsCall
    \/ StatsBegin
    \/ \E ok \in BOOLEAN : StatsSettle(ok)

SpecStats == InitStats /\ [][NextStats]_vars

\* ------------------------------------------------------------------------
\* Specification of the adapters' getAccountStats
\* ------------------------------------------------------------------------

InitAccountStats ==
    /\ InitSettings
    /\ \A p \in Platform : platformsEnabled[p] /\ apiCredentials[p] = 1
    /\ pub = PubIdle
    /\ InitPosts
    /\ InitCache
    /\ InitComments
    /\ accountStats = NoStatsCall
    /\ factoryLog = Unused
    /\ statsRun = Unused
    /\ replyCall = Unused
    /\ errorCase = Unused
    /\ youtubeApi = Unused

NextAccountStats ==
    \E platform \in Platform, reply \in StatsReplies : GetAccountStats(platform, reply)

SpecAccountStats == InitAccountStats /\ [][NextAccountStats]_vars

\* ------------------------------------------------------------------------
\* Specification of the adapters' replyToComment
\* ------------------------------------------------------------------------

InitReply ==
    /\ InitSettings
    /\ \A p \in Platform : platformsEnabled[p] /\ apiCredentials[p] = 1
    /\ pub = PubIdle
    /\ InitPosts
    /\ InitCache
    /\ InitComments
    /\ replyCall = NoReply
    /\ factoryLog = Unused
    /\ statsRun = Unused
    /\ errorCase = Unused
    /\ accountStats = Unused
    /\ youtubeApi = Unused

\* commentId is optional for the Instagram adapter only
NextReply ==
    \E platform \in Platform, postId \in ReplyPostIds, commentText \in ReplyTexts,
       commentId \in ReplyCommentIds :
        /\ platform # "instagram" => commentId # NoId
        /\ ReplyToComment(platform, postId, commentText, commentId)

SpecReply == InitReply /\ [][NextReply]_vars

\* ------------------------------------------------------------------------
\* Specification of the classification of failed requests
\* ------------------------------------------------------------------------

InitErrors ==
    /\ InitSettings
    /\ \A p \in Platform : platformsEnabled[p] /\ apiCredentials[p] = 1
    /\ pub = PubIdle
    /\ InitPosts
    /\ InitCache
    /\ InitComments
    /\ errorCase = NoFailure
    /\ factoryLog = Unused
    /\ statsRun = Unused
    /\ replyCall = Unused
    /\ accountStats = Unused
    /\ youtubeApi = Unused

NextErrors ==
    \E operation \in {"createPost", "getMedia"}, failure \in Failures :
        RequestFails(operation, failure)

SpecErrors == InitErrors /\ [][NextErrors]_vars

\* ------------------------------------------------------------------------
\* Specification of the requests of the YouTube adapter
\* ------------------------------------------------------------------------

InitYouTube ==
    /\ InitSettings
    /\ \A p \in Platform : platformsEnabled[p] /\ apiCredentials[p] = 1
    /\ pub = PubIdle
    /\ InitPosts
    /\ InitCache
    /\ InitComments
    /\ \E refreshToken \in BOOLEAN : youtubeApi = NewYouTubeApi(refreshToken)
    /\ factoryLog = Unused
    /\ statsRun = Unused
    /\ replyCall = Unused
    /\ errorCase = Unused
    /\ accountStats = Unused

NextYouTube ==
    \/ \E operation \in YouTubeOperations : YtCall(operation)
    \/ YtIntercept
    \/ \E ok \in BOOLEAN, failure \in Failures : YtSettle(ok, failure)

SpecYouTube == InitYouTube /\ [][NextYouTube]_vars

\* ------------------------------------------------------------------------
\* Specification of the error raised when the token refresh fails
\* ------------------------------------------------------------------------

InitRefresh ==
    /\ InitSettings
    /\ \A p \in Platform : platformsEnabled[p] /\ apiCredentials[p] = 1
    /\ pub = PubIdle
    /\ InitPosts
    /\ InitCache
    /\ InitComments
    /\ errorCase = NoFailure
    /\ factoryLog = Unused
    /\ statsRun = Unused
    /\ replyCall = Unused
    /\ accountStats = Unused
    /\ youtubeApi = Unused

NextRefresh ==
    \E operation \in YouTubeOperations, failure \in Failures :
        RefreshFails(operation, failure)

SpecRefresh == InitRefresh /\ [][NextRefresh]_vars

\* ------------------------------------------------------------------------
\* Specification of handleReply on the comments a fetch cycle stored
\* ------------------------------------------------------------------------

\* the store after a first fetch cycle over an account whose stats are loaded
StoresAfterFetch(account, posts) ==
    {Reconciled(<<>>, ExtractCommentsFromStats(AccountStats(account), posts, <<>>)
                      \o FetchedComments(account, InstagramPosts(posts), succeeded)) :
        succeeded \in SUBSET (1..MaxPosts)}

InitHandleReply ==
    /\ platformsEnabled \in {[p \in Platform |-> p = "instagram" /\ on] : on \in BOOLEAN}
    /\ apiCredentials = [p \in Platform |-> IF p = "instagram" THEN 1 ELSE 0]
    /\ apiSlot = [p \in Platform |-> IF p = "instagram" THEN 1 ELSE 0]
    /\ pub = PubIdle
    /\ igAccount \in Accounts
    /\ postsStore = ImportAll(EmptyStore, igAccount.media, 1)
    /\ nextUuid = Len(igAccount.media) + 1
    /\ sub = SubIdle
    /\ imp = ImpIdle
    /\ InitCache
    /\ comments \in StoresAfterFetch(igAccount, postsStore.posts)
    /\ platformStats = [p \in Platform |-> IF p = "instagram"
                                           THEN AccountStats(igAccount) ELSE NoStats]
    /\ page = [NewPage(1) EXCEPT !.commentsFetched = TRUE]
    /\ cycles = {}
    /\ fetchLog = EmptyLog
    /\ replyCall = NoHandleReply
    /\ factoryLog = Unused
    /\ statsRun = Unused
    /\ errorCase = Unused
    /\ accountStats = Unused
    /\ youtubeApi = Unused

NextHandleReply ==
    \E k \in 1..MaxPosts * 2, reply \in ReplyTexts, accepted \in BOOLEAN, failure \in ReplyFailures :
        HandleReply(k, reply, accepted, failure)

SpecHandleReply == InitHandleReply /\ [][NextHandleReply]_vars

\* ------------------------------------------------------------------------
\* Specification of the posts getAccountStats goes through
\* ------------------------------------------------------------------------

InitSampling ==
    /\ InitSettings
    /\ \A p \in Platform : platformsEnabled[p] /\ apiCredentials[p] = 1
    /\ pub = PubIdle
    /\ InitPosts
    /\ InitCache
    /\ InitComments
    /\ accountStats = NoSample
    /\ factoryLog = Unused
    /\ statsRun = Unused
    /\ replyCall = Unused
    /\ errorCase = Unused
    /\ youtubeApi = Unused

NextSampling ==
    \E platform \in Platform, n \in 0..MaxListed :
        \E commented \in 0..n : SampleAccount(platform, n, commented)

SpecSampling == InitSampling /\ [][NextSampling]_vars

\* ------------------------------------------------------------------------
\* Specification of usePostsStore under its six operations
\* ------------------------------------------------------------------------

\* Post['status']
PostStatuses == {"draft", "scheduled", "published", "failed"}

\* the data: Partial<Post> updatePost is called with
PostUpdates ==
    {[status |-> st] : st \in PostStatuses}
    \cup {[scheduledFor |-> "date"], [platforms |-> <<"youtube">>]}
    \cup {[status |-> "scheduled", scheduledFor |-> "date"]}

\* the platformPostIds publishPost is called with
PublishedIds ==
    {[p \in Platform |-> IF p \in done THEN "native" ELSE NULL] :
        done \in {{}, {"instagram"}, {"instagram", "youtube"}}}

InitPostStore ==
    /\ InitConnected
    /\ \A p \in Platform : platformsEnabled[p]
    /\ pub = PubIdle
    /\ InitPosts
    /\ InitCache
    /\ InitComments
    /\ InitAdapters

\* an operation of the store replaces the store's state; createPost draws a
\* fresh uuid
StoreBecomes(store, uuid) ==
    /\ postsStore' = store
    /\ nextUuid' = uuid
    /\ UNCHANGED <<settingsVars, apiSlot, pub, sub, imp, cacheVars, fetchVars, adapterVars>>

StoreCreatePost(platforms) ==
    /\ nextUuid <= MaxPosts
    /\ StoreBecomes(CreatePost(postsStore, nextUuid, platforms), nextUuid + 1)

StoreUpdatePost(id, data) == StoreBecomes(UpdatePost(postsStore, id, data), nextUuid)

StoreDeletePost(id) == StoreBecomes(DeletePost(postsStore, id), nextUuid)

StoreSchedulePost(id) == StoreBecomes(SchedulePost(postsStore, id), nextUuid)

StorePublishPost(id, platformPostIds) ==
    StoreBecomes(PublishPost(postsStore, id, platformPostIds), nextUuid)

StoreMarkAsFailed(id) == StoreBecomes(MarkAsFailed(postsStore, id), nextUuid)

\* the ids the operations are called with: known or unknown to the store
NextPostStore ==
    \/ \E platforms \in {<<"instagram">>, <<"instagram", "youtube">>} :
          StoreCreatePost(platforms)
    \/ \E id \in 1..MaxPosts, data \in PostUpdates : StoreUpdatePost(id, data)
    \/ \E id \in 1..MaxPosts : StoreDeletePost(id)
    \/ \E id \in 1..MaxPosts : StoreSchedulePost(id)
    \/ \E id \in 1..MaxPosts, ids \in PublishedIds : StorePublishPost(id, ids)
    \/ \E id \in 1..MaxPosts : StoreMarkAsFailed(id)

SpecPostStore == InitPostStore /\ [][NextPostStore]_vars

\* ------------------------------------------------------------------------
\* Claims about the coordinator and the adapters' createPost (SpecPublish)
\* ------------------------------------------------------------------------

Selected == Range(pub.post.platforms)

\* position of a platform in post.platforms
IndexOf(platform) == CHOOSE k \in 1..Len(pub.post.platforms) : pub.post.platforms[k] = platform

C2_FailureIsIsolated ==
    pub.pc = "returned" =>
        \A a \in Selected :
            pub.attempts[a].kind = "threw" =>
                /\ pub.results[a] = NULL
                /\ \A b \in Selected \ {a} :
                      /\ pub.attempts[b].kind # "none"
                      /\ pub.attempts[b].kind = "returned" =>
                            /\ pub.results[b] # NULL
                            /\ pub.results[b] = pub.attempts[b].id

\* C2 witness: a returned call in which an earlier platform threw and a later
\* platform's adapter returned an id.
C2_Witness ==
    /\ pub.pc = "returned"
    /\ \E a, b \in Selected :
          /\ IndexOf(a) < IndexOf(b)
          /\ pub.attempts[a].kind = "threw"
          /\ pub.attempts[b].kind = "returned"
          /\ pub.results[b] \in NativeIds

\* C7 (as stated): an id that an adapter's createPost returns is always an id
\* the platform returned; no adapter makes one up.
C7_NoFabricatedId ==
    \A p \in Platform :
        pub.attempts[p].kind = "returned" => pub.attempts[p].native

\* the post has no media of the kind the claim says the platform requires
LacksRequiredMedia(platform, post) ==
    CASE platform = "instagram" -> post.mediaUrl = NoMedia \/ post.mediaType = NoMedia
      [] OTHER -> post.mediaUrl = NoMedia \/ post.mediaType # "video"

\* C14: when the loop reaches Instagram, YouTube or TikTok and the post lacks
\* the media that platform requires, the pass records null for the platform,
\* leaves the factory's adapters as they are and calls no adapter.
C14_MissingMediaSkipsPlatform ==
    [][\A platform \in {"instagram", "youtube", "tiktok"} :
          ( /\ pub.pc = "loop"
            /\ pub.post.platforms[pub.i] = platform
            /\ LacksRequiredMedia(platform, pub.post) )
          => /\ apiSlot' = apiSlot
             /\ pub'.pc # "await"
             /\ pub'.outstanding = {}
             /\ pub'.results[platform] = NULL
             /\ pub'.attempts[platform] = Skipped]_vars

\* C14 witness: a returned call that skipped a platform whose adapter the
\* factory would have constructed: the platform is enabled, its credentials
\* are stored and its slot is still empty.
C14_Witness ==
    /\ pub.pc = "returned"
    /\ \E p \in Selected :
          /\ LacksRequiredMedia(p, pub.post)
          /\ pub.attempts[p] = Skipped
          /\ pub.results[p] = NULL
          /\ platformsEnabled[p]
          /\ apiCredentials[p] = 1
          /\ apiSlot[p] = 0

\* C17: at most one createPost call is outstanding; while the loop works on
\* platform number i, the platforms before it have been dealt with, the ones
\* after it have not been touched, and only platform i can be outstanding.
C17_OneCallAtATime ==
    /\ Cardinality(pub.outstanding) <= 1
    /\ pub.pc \in {"loop", "await"} =>
          /\ pub.outstanding \subseteq {pub.post.platforms[pub.i]}
          /\ pub.pc = "await" => pub.outstanding = {pub.post.platforms[pub.i]}
          /\ \A k \in 1..Len(pub.post.platforms) :
                /\ k < pub.i => pub.attempts[pub.post.platforms[k]].kind # "none"
                /\ k > pub.i => /\ pub.attempts[pub.post.platforms[k]].kind = "none"
                                /\ pub.post.platforms[k] \notin pub.outstanding
    /\ pub.pc \in {"idle", "returned", "threw"} => pub.outstanding = {}

\* C17 witness: the second platform's createPost is outstanding after the
\* first platform's createPost has settled.
C17_Witness ==
    /\ pub.pc = "await"
    /\ pub.i = MaxPlatforms
    /\ pub.attempts[pub.post.platforms[1]].kind = "returned"
    /\ pub.outstanding = {pub.post.platforms[pub.i]}

\* ------------------------------------------------------------------------
\* Claims about the submit handler and the posts store (SpecPosts)
\* ------------------------------------------------------------------------

\* the posts of the store that the finished submission created (none once deleted)
SubmittedPosts ==
    {postsStore.posts[k] : k \in {j \in 1..Len(postsStore.posts) :
                                      postsStore.posts[j].id = sub.postId}}

\* C9: once a publish-now submission has processed the coordinator's result,
\* the post is 'published' exactly when some platform of post.platforms got a
\* non-null id, 'failed' exactly when none did, and it is no longer 'draft'.
C9_StatusFollowsResults ==
    sub.pc = "done" =>
        \A q \in SubmittedPosts :
            LET succeeded == \E p \in Range(q.platforms) : sub.results[p] # NULL
            IN /\ q.status = "published" <=> succeeded
               /\ q.status = "failed" <=> ~succeeded
               /\ q.status # "draft"

\* C9 witness: a finished submission of two platforms, one of which failed and
\* the other returned an id, whose post is still in the store.
C9_Witness ==
    /\ sub.pc = "done"
    /\ \E q \in SubmittedPosts :
          /\ q.status = "published"
          /\ \E a, b \in Range(q.platforms) :
                sub.results[a] = NULL /\ sub.results[b] # NULL

\* C10 (as stated): no post's platformPostIds maps a platform to null or to an
\* empty id.
C10_StoredIdsAreIds ==
    \A k \in 1..Len(postsStore.posts) :
        \A p \in DOMAIN postsStore.posts[k].platformPostIds :
            postsStore.posts[k].platformPostIds[p] \notin {NULL, EmptyString}

\* ------------------------------------------------------------------------
\* Claims about the Instagram response cache (SpecCache)
\* ------------------------------------------------------------------------

\* the value stored for the resource a read is about, NULL when none is
StoredValue(api, op, mediaId) ==
    IF op = "getMedia" THEN api.mediaCache ELSE api.commentsCache[mediaId]

\* the fetch time stored for the resource a read is about
StoredFetchTime(api, op, mediaId) ==
    IF op = "getMedia" THEN api.lastMediaFetch ELSE api.lastCommentsRefresh[mediaId]

\* C3: a read without forceRefresh that starts less than CACHE_TTL after the
\* stored fetch time of its resource issues no upstream request, and a read
\* answered from the cache returns the stored value: two such reads after one
\* successful fetch cost that one request only.
C3_FreshReadIssuesNoRequest ==
    [][ /\ \A r \in igReads' \ igReads :
              \/ r.forceRefresh
              \/ StoredValue(instagramApi, r.op, r.mediaId) = NULL
              \/ r.now - StoredFetchTime(instagramApi, r.op, r.mediaId) >= CACHE_TTL
        /\ (lastRead' # lastRead /\ lastRead'.event = "hit") =>
              /\ igReads' = igReads
              /\ instagramApi' = instagramApi
              /\ lastRead'.value = StoredValue(instagramApi, lastRead'.op, lastRead'.mediaId)
      ]_vars

\* C3 witness: after one fetch and some time, but less than the TTL, a read was
\* answered from the cache and no request is under way.
C3_Witness ==
    /\ lastRead.event = "hit"
    /\ lastRead.op = "getMedia"
    /\ igReads = {}
    /\ now > instagramApi.lastMediaFetch
    /\ now - instagramApi.lastMediaFetch < CACHE_TTL

\* C4: when the request of a read fails, the read returns the stored value of
\* its resource whatever its age if there is one, it raises the error only if
\* nothing is stored for the resource, and the stored values and fetch times
\* stay as they were.
C4_StaleOnError ==
    [][ ((\E r \in igReads : igReads' = igReads \ {r})
          /\ lastRead'.event \in {"stale", "threw", "empty"}) =>
            LET stored == StoredValue(instagramApi, lastRead'.op, lastRead'.mediaId)
            IN /\ instagramApi' = instagramApi
               /\ stored # NULL =>
                     lastRead'.event = "stale" /\ lastRead'.value = stored
               /\ lastRead'.event = "threw" => stored = NULL
      ]_vars

\* C4 witness: a failed refresh returned a media list that is older than the TTL.
C4_Witness ==
    /\ lastRead.event = "stale"
    /\ lastRead.op = "getMedia"
    /\ lastRead.value = instagramApi.mediaCache
    /\ now - instagramApi.lastMediaFetch >= CACHE_TTL

\* C15: when the request of a getComments call for a simulated post fails and
\* no response is cached for the post, the call returns an empty comment list
\* and raises no error.
C15_SimulatedPostYieldsEmptyList ==
    [][\A r \in igReads :
          ( /\ igReads' = igReads \ {r}
            /\ r.op = "getComments"
            /\ IsSimulatedPost(r.mediaId)
            /\ instagramApi.commentsCache[r.mediaId] = NULL
            /\ instagramApi' = instagramApi )
          => /\ lastRead'.op = "getComments"
             /\ lastRead'.mediaId = r.mediaId
             /\ lastRead'.event = "empty"
             /\ lastRead'.value = EmptyComments]_vars

\* C15 witness: a getComments call for the simulated post returned the empty
\* list while nothing is cached for the post.
C15_Witness ==
    /\ lastRead.op = "getComments"
    /\ lastRead.event = "empty"
    /\ lastRead.value = EmptyComments
    /\ IsSimulatedPost(lastRead.mediaId)
    /\ instagramApi.commentsCache[lastRead.mediaId] = NULL

\* ------------------------------------------------------------------------
\* Claims about the fetch cycles of the Comments page (SpecFetch)
\* ------------------------------------------------------------------------

\* the comment came from getComments and carries the platform's comment id
IsAuthoritative(comment) == comment.platformCommentId.kind = "native"

\* the comment was derived from the recent activity of the platform stats
IsApproximate(comment) == comment.platformCommentId.kind = "stats"

\* C5: when the batch of a fetch cycle holds an authoritative comment and an
\* approximate comment with the same (platform, platformPostId, content), the
\* store after the cycle holds exactly one comment of that key, the
\* authoritative one.
C5_AuthoritativeEntryIsKept ==
    \A i, j \in 1..Len(fetchLog.batch) :
        ( /\ IsAuthoritative(fetchLog.batch[i])
          /\ IsApproximate(fetchLog.batch[j])
          /\ CommentKey(fetchLog.batch[i]) = CommentKey(fetchLog.batch[j]) )
        => LET same == {k \in 1..Len(fetchLog.stored) :
                           CommentKey(fetchLog.stored[k]) = CommentKey(fetchLog.batch[i])}
           IN /\ Cardinality(same) = 1
              /\ \A k \in same : IsAuthoritative(fetchLog.stored[k])

\* cycle n of the history ran alone, all of its requests were answered, and it
\* worked on the platform stats the account yields
RanOnSameData(n) ==
    /\ fetchLog.history[n].solo
    /\ fetchLog.history[n].ok
    /\ fetchLog.history[n].platformStats = AccountStats(igAccount)

\* C6: two fetch cycles in a row over the same posts, platform stats and
\* comment responses leave the store with the same number of comments.
C6_SecondCycleKeepsSize ==
    \A n \in 2..Len(fetchLog.history) :
        (RanOnSameData(n - 1) /\ RanOnSameData(n))
        => fetchLog.history[n].size = fetchLog.history[n - 1].size

\* C8: a fetchAllComments call made while a fetch cycle is in flight starts
\* no cycle and leaves the comment store alone.
C8_SecondCallIsNoOp ==
    fetchLog.call.inFlight => (~fetchLog.call.started /\ ~fetchLog.call.cleared)

\* ------------------------------------------------------------------------
\* Claims about the factory (SpecFactory)
\* ------------------------------------------------------------------------

\* C18 (as stated): a getApiService call for a platform that is not enabled or
\* has no stored credentials throws, returns no adapter and leaves the
\* platform's slot empty; a call made with the slot empty once the platform is
\* enabled and has credentials returns an adapter constructed from them.
C18_ConstructionFailsFast ==
    factoryLog.called =>
        /\ (~factoryLog.enabled \/ factoryLog.credentials = 0) =>
              /\ factoryLog.threw
              /\ factoryLog.adapter = 0
              /\ factoryLog.slotAfter = 0
        /\ (factoryLog.enabled /\ factoryLog.credentials # 0 /\ factoryLog.slotBefore = 0) =>
              /\ ~factoryLog.threw
              /\ factoryLog.adapter = factoryLog.credentials
              /\ factoryLog.slotAfter = factoryLog.credentials

\* C18 (amended): a getApiService call for a platform that is not enabled or
\* has no stored credentials throws, returns no adapter and leaves the slot as
\* it was; a construction that failed leaves the slot empty, and a call made
\* with the slot empty once the platform is enabled and has credentials
\* returns an adapter constructed from them.
C18_FailedCallKeepsSlot ==
    factoryLog.called =>
        /\ (~factoryLog.enabled \/ factoryLog.credentials = 0) =>
              /\ factoryLog.threw
              /\ factoryLog.adapter = 0
              /\ factoryLog.slotAfter = factoryLog.slotBefore
        /\ (factoryLog.threw /\ factoryLog.enabled) => factoryLog.slotAfter = 0
        /\ (factoryLog.enabled /\ factoryLog.credentials # 0 /\ factoryLog.slotBefore = 0) =>
              /\ ~factoryLog.threw
              /\ factoryLog.adapter = factoryLog.credentials
              /\ factoryLog.slotAfter = factoryLog.credentials

\* C18 witness: a getApiService call threw for an enabled platform without
\* credentials and left its slot empty.
C18_Witness ==
    /\ factoryLog.called
    /\ factoryLog.enabled
    /\ factoryLog.credentials = 0
    /\ factoryLog.threw
    /\ apiSlot[factoryLog.platform] = 0

\* ------------------------------------------------------------------------
\* Claims about getPlatformStats (SpecStats)
\* ------------------------------------------------------------------------

\* C11: once getPlatformStats has returned, every enabled platform was dealt
\* with whatever happened to the others: its adapter was asked for, its
\* getAccountStats was called if the adapter could be obtained, and stats that
\* getAccountStats resolved to are in the stats map; no error left the call.
C11_StatsFailureIsIsolated ==
    /\ ~statsRun.escaped
    /\ statsRun.pc = "returned" =>
          \A p \in Platform :
              platformsEnabled[p] =>
                  /\ statsRun.attempts[p] # "none"
                  /\ (apiSlot[p] # 0) => statsRun.attempts[p] \in {"resolved", "rejected"}
                  /\ statsRun.attempts[p] = "resolved" => platformStats[p] = StatsOf(p)

\* C11 witness: a returned call in which an earlier platform failed, by its
\* adapter or by its getAccountStats, and a later platform's stats were written.
C11_Witness ==
    /\ statsRun.pc = "returned"
    /\ \E a, b \in 1..Len(statsRun.platforms) :
          /\ a < b
          /\ statsRun.attempts[statsRun.platforms[a]] = "rejected"
          /\ \E c \in 1..Len(statsRun.platforms) :
                c < b /\ statsRun.attempts[statsRun.platforms[c]] = "threw"
          /\ statsRun.attempts[statsRun.platforms[b]] = "resolved"
          /\ platformStats[statsRun.platforms[b]] = StatsOf(statsRun.platforms[b])

\* ------------------------------------------------------------------------
\* Claims about getAccountStats (SpecAccountStats)
\* ------------------------------------------------------------------------

\* C16: whatever adapter and return path produced the stats, the engagement
\* rate is totalComments / totalPosts when totalPosts > 0 and exactly 0 when
\* totalPosts = 0, and nothing was divided by zero.
C16_EngagementRateIsDefined ==
    ~accountStats.threw =>
        /\ accountStats.engagementRate.den # 0
        /\ accountStats.totalPosts > 0 =>
              accountStats.engagementRate.num * accountStats.totalPosts
                 = accountStats.totalComments * accountStats.engagementRate.den
        /\ accountStats.totalPosts = 0 => accountStats.engagementRate.num = 0

\* C16 witness: an adapter whose posts request succeeded returned stats for
\* an account without posts.
C16_Witness ==
    /\ ~accountStats.threw
    /\ accountStats.path \in {"tiktok", "youtube", "facebook", "facebook-feed"}
    /\ accountStats.totalPosts = 0
    /\ accountStats.engagementRate = Quotient(0, 1)

\* ------------------------------------------------------------------------
\* Claims about replyToComment (SpecReply)
\* ------------------------------------------------------------------------

\* the comment a request is tied to, by its path or by its parent parameter
RepliedTo(request) ==
    IF request.resource \in {"comment-replies", "comment-comments"}
    THEN request.path ELSE request.parent

\* C12: a replyToComment request with a parent comment id is tied to exactly
\* that comment and does not go to the comments of the post; without a parent
\* comment id it is a top-level comment on the post.
C12_ReplyGoesToTheComment ==
    replyCall.request.sent =>
        IF replyCall.commentId # NoId
        THEN /\ replyCall.request.resource # "post-comments"
             /\ RepliedTo(replyCall.request) = replyCall.commentId
        ELSE /\ replyCall.request.resource = "post-comments"
             /\ replyCall.request.path = replyCall.postId
             /\ replyCall.request.parent = NoId

\* ------------------------------------------------------------------------
\* Claims about the classification of failed requests (SpecErrors)
\* ------------------------------------------------------------------------

\* the kind an error message stands for
KindOfMessage(prefix) ==
    CASE prefix = "Authentication error" -> "AuthExpired"
      [] prefix = "Resource not found" -> "NotFound"
      [] prefix \in {"Bad request", "Failed to create media container",
                     "Failed to publish media"} -> "InvalidRequest"
      [] prefix \in {"Server error", "Instagram server error"} -> "PlatformUnavailable"
      [] prefix = "Network error" -> "NetworkUnreachable"
      [] prefix = "API Error" -> "Unknown"
      [] OTHER -> "none"

\* the kind the classification rule gives a failure
ExpectedKind(failure) ==
    IF failure.response
    THEN (IF failure.status \in {401, 403} THEN "AuthExpired"
          ELSE IF failure.status = 404 THEN "NotFound"
          ELSE IF failure.status = 400 THEN "InvalidRequest"
          ELSE IF failure.status \in 500..599 THEN "PlatformUnavailable"
          ELSE "Unknown")
    ELSE IF failure.request THEN "NetworkUnreachable"
    ELSE "Unknown"

C20_RefreshRunsOnce == youtubeApi.refreshes <= 1

\* ------------------------------------------------------------------------
\* Claims about the cached adapters (SpecFactory)
\* ------------------------------------------------------------------------

\* C21: the adapter a getApiService call returns was constructed from the
\* credentials stored for the platform at the time of the call.
C21_AdapterHasCurrentCredentials ==
    (factoryLog.called /\ ~factoryLog.threw) =>
        factoryLog.adapter = factoryLog.credentials

\* ------------------------------------------------------------------------
\* Claims about the store after a fetch cycle (SpecFetchChanging)
\* ------------------------------------------------------------------------

\* the comments without the ids the store gave them
WithoutIds(commentList) ==
    [k \in 1..Len(commentList) |-> [commentList[k] EXCEPT !.id = Id("uuid", "", 0)]]

\* the latest cycle ran alone and had every request answered
LastCycleOk ==
    /\ fetchLog.history # <<>>
    /\ fetchLog.history[Len(fetchLog.history)].ok
    /\ fetchLog.history[Len(fetchLog.history)].solo

\* C22: after a fetch cycle that ran alone and had all its requests answered,
\* the store holds exactly the deduplicated batch of that cycle, also when
\* that batch is empty.
C22_StoreIsTheBatch ==
    LastCycleOk =>
        WithoutIds(fetchLog.stored) = WithoutIds(UniqueComments(fetchLog.batch))

\* ------------------------------------------------------------------------
\* Further claims about the fetch cycles of the Comments page (SpecFetch)
\* ------------------------------------------------------------------------

\* C23: every stored comment names a post of the posts store, by a postId
\* that is not empty and by the platform id of that same post.
C23_StoredCommentsHaveAPost ==
    \A k \in 1..Len(comments) :
        /\ comments[k].postId # NoPostId
        /\ \E j \in 1..Len(postsStore.posts) :
              /\ postsStore.posts[j].id = comments[k].postId
              /\ postsStore.posts[j].platformPostIds["instagram"] = comments[k].platformPostId

\* ------------------------------------------------------------------------
\* Claims about handleReply (SpecHandleReply)
\* ------------------------------------------------------------------------

\* the comment handleReply was called for, as it was before the call
RepliedComment == replyCall.before[replyCall.index]

\* C24: no reply request is sent for a comment derived from the platform
\* stats or for a comment of a simulated post.
C24_NoRequestForSimulatedTarget ==
    (replyCall.handled /\ replyCall.request.sent) =>
        /\ ~IsApproximate(RepliedComment)
        /\ ~IsSimulatedPost(RepliedComment.platformPostId)

\* C29: when the platform did not accept the reply, the replied flags of the
\* store are as they were before handleReply.
C29_RepliedOnlyWhenAccepted ==
    (replyCall.handled /\ ~replyCall.accepted) => comments = replyCall.before

\* ------------------------------------------------------------------------
\* Claims about the steps of a fetch cycle (SpecFetch)
\* ------------------------------------------------------------------------

\* C25: while a non-empty batch is reconciled, the mounted Comments page, which
\* is subscribed to the store, is never notified of an empty collection.
C25_NoEmptyStoreInBetween ==
    UniqueComments(fetchLog.batch) # <<>> =>
        \A k \in 1..Len(fetchLog.notified) : fetchLog.notified[k] # <<>>

\* C27: a cycle whose getPlatformStats call was answered extracts the stats
\* comments from the platform stats that call stored, and checks them against
\* the comments the store held at that moment.
C27_ExtractionUsesFreshData ==
    fetchLog.seen.answered =>
        /\ fetchLog.used.platformStats = fetchLog.seen.platformStats
        /\ fetchLog.used.comments = fetchLog.seen.comments

C26_AtMostFivePosts ==
    accountStats.called =>
        (accountStats.counted <= SampleSize /\ accountStats.requests <= SampleSize)

\* ------------------------------------------------------------------------
\* Claims about usePostsStore under its six operations (SpecPostStore)
\* ------------------------------------------------------------------------

StatusLists == {"drafts", "scheduled", "published", "failed"}

StatusOfList(list) == IF list = "drafts" THEN "draft" ELSE list

\* the number of times a post object occurs in one of the four lists
Occurrences(post) ==
    Cardinality({<<list, k>> \in StatusLists \X (1..MaxPosts) :
                    /\ k <= Len(postsStore[list])
                    /\ postsStore[list][k] = post})

\* C30: each of the four lists holds exactly the posts of its status, in the
\* order of posts; no post is in two lists and every post is in one list once.
C30_ListsPartitionPosts ==
    /\ \A list \in StatusLists :
          /\ Range(postsStore[list]) =
                {q \in Range(postsStore.posts) : q.status = StatusOfList(list)}
          /\ \A k \in 1..Len(postsStore[list]) :
                postsStore[list][k].status = StatusOfList(list)
    /\ \A a, b \in StatusLists :
          a # b => Range(postsStore[a]) \cap Range(postsStore[b]) = {}
    /\ \A k \in 1..Len(postsStore.posts) : Occurrences(postsStore.posts[k]) = 1
    /\ Len(postsStore.drafts) + Len(postsStore.scheduled)
         + Len(postsStore.published) + Len(postsStore.failed) = Len(postsStore.posts)

\* one post was created and deleted, the other created, failed and published
C30_Witness ==
    /\ nextUuid = MaxPosts + 1
    /\ Len(postsStore.posts) = 1
    /\ postsStore.posts[1].status = "published"
    /\ "instagram" \in DOMAIN postsStore.posts[1].platformPostIds
    /\ postsStore.posts[1].platformPostIds["instagram"] # NULL
    /\ postsStore.published = postsStore.posts
    /\ postsStore.drafts = <<>>

====
